---- MODULE Spec2Model ----
(***************************************************************************)
(* Model of the data-acquisition layer of git-wrapped (src/src/api/        *)
(* github.ts): the process-wide rate-limit state, the fetchGitHub wrapper, *)
(* the repository and event paginators, the two contribution sources, the  *)
(* response cache and the fetchAllGitHubData orchestrator.                 *)
(*                                                                         *)
(* An await is a point where the coroutine is suspended with a request in  *)
(* flight; one action is the arrival of one response together with all the *)
(* synchronous code that runs up to the next await or to completion.       *)
(***************************************************************************)
EXTENDS FiniteSets, Integers, Sequences, TLC

VARIABLES
    now,            \* Date.now(), in milliseconds
    ticks,          \* number of clock advances so far (bounds the run)
    cache,          \* the Map `cache`: key |-> [data, timestamp]
    rateLimitInfo,  \* the module variable `rateLimitInfo`
    calls,          \* the fetchAllGitHubData invocations
    started,        \* number of fetchAllGitHubData invocations begun so far
    pag,            \* a paginator invoked on its own (exported functions)
    last            \* what the most recent operation observed and returned

vars == <<now, ticks, cache, rateLimitInfo, calls, started, pag, last>>

(***************************************************************************)
(* Values                                                                  *)
(***************************************************************************)
Null == [null |-> TRUE]

Min(a, b) == IF a < b THEN a ELSE b

\* Array.prototype.slice(0, max) for an integer max (negative max counts
\* from the end).
Slice(s, max) ==
    IF max >= 0 THEN SubSeq(s, 1, Min(max, Len(s)))
    ELSE SubSeq(s, 1, IF Len(s) + max > 0 THEN Len(s) + max ELSE 0)

\* parseInt(s, 10) of a string of decimal digits, given as the sequence of
\* its digits.
RECURSIVE ParseInt(_)
ParseInt(s) ==
    IF s = <<>> THEN 0
    ELSE 10 * ParseInt(SubSeq(s, 1, Len(s) - 1)) + s[Len(s)]

Pad2(n) == IF n < 10 THEN "0" \o ToString(n) ELSE ToString(n)

\* Date.prototype.toLocaleTimeString(): the time of day of an instant given
\* in milliseconds (rendered here as UTC HH:MM:SS); the date is not part of
\* the text.
ToLocaleTimeString(ms) ==
    LET s == (ms \div 1000) % 86400
    IN  Pad2(s \div 3600) \o ":" \o Pad2((s % 3600) \div 60) \o ":" \o Pad2(s % 60)

(***************************************************************************)
(* Rate-limit state                                                        *)
(***************************************************************************)
\* Headers.get(name) is a non-empty string (the test `if (remaining && ...)`).
HeaderTruthy(headers, name) == name \in DOMAIN headers /\ headers[name] # <<>>

RateLimitFromHeaders(headers) ==
    [remaining |-> ParseInt(headers["remaining"]),
     limit     |-> ParseInt(headers["limit"]),
     resetTime |-> ParseInt(headers["reset"]) * 1000]

MutUpdateRateLimitAny(rl, headers) ==
    IF HeaderTruthy(headers, "remaining") /\ HeaderTruthy(headers, "limit")
    THEN [remaining |-> ParseInt(headers["remaining"]),
          limit     |-> ParseInt(headers["limit"]),
          resetTime |-> IF HeaderTruthy(headers, "reset")
                        THEN ParseInt(headers["reset"]) * 1000 ELSE 0]
    ELSE rl

\* updateRateLimit: the new value of rateLimitInfo.
UpdateRateLimit(rl, headers) ==
    IF /\ HeaderTruthy(headers, "remaining")
       /\ HeaderTruthy(headers, "limit")
       /\ HeaderTruthy(headers, "reset")
    THEN RateLimitFromHeaders(headers)
    ELSE rl

(***************************************************************************)
(* Responses and errors                                                    *)
(***************************************************************************)
\* Response.ok
ResponseOk(resp) == resp.status >= 200 /\ resp.status <= 299

StatusText(status) ==
    CASE status = 200 -> "OK"
      [] status = 403 -> "Forbidden"
      [] status = 404 -> "Not Found"
      [] status = 500 -> "Internal Server Error"
      [] OTHER -> ""

GitHubApiError(message, status, code) ==
    [name |-> "GitHubApiError", message |-> message, status |-> status, code |-> code]

\* What fetch() rejects with when no response is received.
TransportError ==
    [name |-> "TypeError", message |-> "Failed to fetch", status |-> 0, code |-> "undefined"]

\* A response; net = FALSE stands for fetch() rejecting (no response).
Response(status, headers, body) ==
    [net |-> TRUE, status |-> status, headers |-> headers, body |-> body]

NoResponse == [net |-> FALSE, status |-> 0, headers |-> <<>>, body |-> Null]

MutErrorFor403(rl) ==
    GitHubApiError("API rate limit exceeded. Try again at soon", 403, "RATE_LIMITED")

\* The error thrown for a 403, given rateLimitInfo as it stands.
ErrorFor403(rl) ==
    GitHubApiError(
        "API rate limit exceeded. Try again at "
            \o (IF rl # Null THEN ToLocaleTimeString(rl.resetTime) ELSE "soon"),
        403, "RATE_LIMITED")

\* fetchGitHub from the arrival of the response: the new rateLimitInfo and
\* either the parsed body or the error thrown.
FetchGitHub(rl, resp) ==
    IF ~resp.net
    THEN [rl |-> rl, ok |-> FALSE, value |-> Null, error |-> TransportError]
    ELSE LET rl2 == UpdateRateLimit(rl, resp.headers)
         IN  IF ~ResponseOk(resp)
             THEN [rl |-> rl2, ok |-> FALSE, value |-> Null,
                   error |-> IF resp.status = 404
                             THEN GitHubApiError("User not found", 404, "NOT_FOUND")
                             ELSE IF resp.status = 403
                             THEN ErrorFor403(rl2)
                             ELSE GitHubApiError(
                                      "GitHub API error: " \o StatusText(resp.status),
                                      resp.status, "undefined")]
             ELSE [rl |-> rl2, ok |-> TRUE, value |-> resp.body, error |-> Null]

(***************************************************************************)
(* Paginators                                                              *)
(***************************************************************************)
PerPage == 100

MaxEventPages == 3

\* The array a list endpoint returns for page `page` of `user` when it
\* holds n items there.
PageBody(kind, user, page, n) ==
    [i \in 1..n |-> [kind |-> kind, user |-> user, page |-> page, idx |-> i]]

RECURSIVE Concat(_)
Concat(ss) == IF ss = <<>> THEN <<>> ELSE Head(ss) \o Concat(Tail(ss))

\* A paginator that is not running.
IdlePaginator ==
    [kind |-> "none", st |-> "idle", user |-> "", max |-> 0, page |-> 1,
     items |-> <<>>, nreq |-> 0, seen |-> <<>>, out |-> <<>>, err |-> Null]

\* fetchUserRepos up to its first await: st = "wait" is the request for
\* page `page` in flight; nreq counts the requests issued; seen is the
\* history of the page bodies received.
StartRepos(user, maxRepos) ==
    IF 0 < maxRepos
    THEN [IdlePaginator EXCEPT !.kind = "repos", !.st = "wait", !.user = user,
                               !.max = maxRepos, !.nreq = 1]
    ELSE [IdlePaginator EXCEPT !.kind = "repos", !.st = "done", !.user = user,
                               !.max = maxRepos, !.out = Slice(<<>>, maxRepos)]

\* fetchUserRepos from the outcome r of the awaited fetchGitHub to the next
\* await, the return or the throw.
ReposOnResponse(p, r) ==
    IF ~r.ok
    THEN [p EXCEPT !.st = "fail", !.err = r.error]
    ELSE LET pageRepos == r.value
             repos == p.items \o pageRepos
             seen == Append(p.seen, pageRepos)
         IN  IF Len(pageRepos) = 0
             THEN [p EXCEPT !.st = "done", !.seen = seen,
                            !.out = Slice(p.items, p.max)]
             ELSE IF Len(pageRepos) < PerPage \/ ~(Len(repos) < p.max)
             THEN [p EXCEPT !.st = "done", !.seen = seen, !.items = repos,
                            !.page = p.page + 1, !.out = Slice(repos, p.max)]
             ELSE [p EXCEPT !.seen = seen, !.items = repos,
                            !.page = p.page + 1, !.nreq = p.nreq + 1]

\* fetchUserEvents up to its first await.
StartEvents(user, maxEvents) ==
    IF 0 < maxEvents /\ 1 <= MaxEventPages
    THEN [IdlePaginator EXCEPT !.kind = "events", !.st = "wait", !.user = user,
                               !.max = maxEvents, !.nreq = 1]
    ELSE [IdlePaginator EXCEPT !.kind = "events", !.st = "done", !.user = user,
                               !.max = maxEvents]

MutEventsOnResponseThrows(p, r) ==
    IF ~r.ok
    THEN [p EXCEPT !.st = "fail", !.err = r.error]
    ELSE LET pageEvents == r.value
             events == p.items \o pageEvents
             seen == Append(p.seen, pageEvents)
         IN  IF Len(pageEvents) = 0
             THEN [p EXCEPT !.st = "done", !.seen = seen, !.out = p.items]
             ELSE IF Len(events) < p.max /\ p.page + 1 <= MaxEventPages
             THEN [p EXCEPT !.seen = seen, !.items = events,
                            !.page = p.page + 1, !.nreq = p.nreq + 1]
             ELSE [p EXCEPT !.st = "done", !.seen = seen, !.items = events,
                            !.page = p.page + 1, !.out = events]

\* fetchUserEvents from the outcome r of the awaited fetchGitHub to the next
\* await or the return.
EventsOnResponse(p, r) ==
    IF ~r.ok
    THEN [p EXCEPT !.st = "done", !.out = p.items]
    ELSE LET pageEvents == r.value
             events == p.items \o pageEvents
             seen == Append(p.seen, pageEvents)
         IN  IF Len(pageEvents) = 0
             THEN [p EXCEPT !.st = "done", !.seen = seen, !.out = p.items]
             ELSE IF Len(events) < p.max /\ p.page + 1 <= MaxEventPages
             THEN [p EXCEPT !.seen = seen, !.items = events,
                            !.page = p.page + 1, !.nreq = p.nreq + 1]
             ELSE [p EXCEPT !.st = "done", !.seen = seen, !.items = events,
                            !.page = p.page + 1, !.out = events]

PaginatorOnResponse(p, r) ==
    IF p.kind = "repos" THEN ReposOnResponse(p, r) ELSE EventsOnResponse(p, r)

(***************************************************************************)
(* Contribution sources                                                    *)
(***************************************************************************)
\* fetchContributionData with a token, from the arrival of the response:
\* the value returned.  The body is [errors, collection]: whether the
\* answer carries an error list, and data.user.contributionsCollection
\* (Null when absent).  rateLimitInfo is not touched.
ContributionData(resp) ==
    IF ~resp.net THEN Null
    ELSE IF ~ResponseOk(resp) THEN Null
    ELSE IF resp.body.errors THEN Null
    ELSE resp.body.collection

MutFetchContributionDataThrows(token, resp) ==
    IF token = ""
    THEN [sent |-> FALSE, ok |-> TRUE, value |-> Null, error |-> Null]
    ELSE IF ~resp.net
    THEN [sent |-> TRUE, ok |-> FALSE, value |-> Null, error |-> TransportError]
    ELSE [sent |-> TRUE, ok |-> TRUE, value |-> ContributionData(resp), error |-> Null]

\* fetchContributionData(username, year, token): without a token it returns
\* null before any request; with one the request is sent (sent) and resp is
\* what comes back.  Everything after the test of the token runs inside
\* try/catch, so the promise is always fulfilled (ok).
FetchContributionData(token, resp) ==
    IF token = ""
    THEN [sent |-> FALSE, ok |-> TRUE, value |-> Null, error |-> Null]
    ELSE [sent |-> TRUE, ok |-> TRUE, value |-> ContributionData(resp), error |-> Null]

\* Date.prototype.getDay() of a date given as days since 1970-01-01 (a
\* Thursday).
GetDay(date) == (date + 4) % 7

ContributionLevel(count) ==
    IF count = 0 THEN "NONE"
    ELSE IF count <= 3 THEN "FIRST_QUARTILE"
    ELSE IF count <= 6 THEN "SECOND_QUARTILE"
    ELSE IF count <= 9 THEN "THIRD_QUARTILE"
    ELSE "FOURTH_QUARTILE"

RECURSIVE MutGroupByWeekClosesEmpty(_, _, _, _, _)
MutGroupByWeekClosesEmpty(contributions, i, weeks, currentWeek, total) ==
    IF i > Len(contributions)
    THEN [weeks |-> IF Len(currentWeek) > 0 THEN Append(weeks, currentWeek) ELSE weeks,
          total |-> total]
    ELSE LET contrib == contributions[i]
             newWeek == GetDay(contrib.date) = 0
             day == [date |-> contrib.date,
                     contributionCount |-> contrib.count,
                     contributionLevel |-> ContributionLevel(contrib.count)]
         IN  MutGroupByWeekClosesEmpty(contributions, i + 1,
                         IF newWeek THEN Append(weeks, currentWeek) ELSE weeks,
                         Append(IF newWeek THEN <<>> ELSE currentWeek, day),
                         total + contrib.count)

\* The loop over data.contributions from entry i on: weeks closed so far,
\* the week being filled and the running total.
RECURSIVE GroupByWeek(_, _, _, _, _)
GroupByWeek(contributions, i, weeks, currentWeek, total) ==
    IF i > Len(contributions)
    THEN [weeks |-> IF Len(currentWeek) > 0 THEN Append(weeks, currentWeek) ELSE weeks,
          total |-> total]
    ELSE LET contrib == contributions[i]
             newWeek == GetDay(contrib.date) = 0 /\ Len(currentWeek) > 0
             day == [date |-> contrib.date,
                     contributionCount |-> contrib.count,
                     contributionLevel |-> ContributionLevel(contrib.count)]
         IN  GroupByWeek(contributions, i + 1,
                         IF newWeek THEN Append(weeks, currentWeek) ELSE weeks,
                         Append(IF newWeek THEN <<>> ELSE currentWeek, day),
                         total + contrib.count)

\* fetchContributionCalendarFallback from the arrival of the response: the
\* value returned.  The body is [contributions, total]: the list of
\* {date, count} and the per-year totals (a function of the years it
\* names).  rateLimitInfo is not touched.
ContributionCalendarFallback(resp, year) ==
    IF ~resp.net THEN Null
    ELSE IF ~ResponseOk(resp) THEN Null
    ELSE LET data == resp.body
             g == GroupByWeek(data.contributions, 1, <<>>, <<>>, 0)
         IN  [totalContributions |->
                  IF year \in DOMAIN data.total /\ data.total[year] # 0
                  THEN data.total[year] ELSE g.total,
              weeks |-> g.weeks]

(***************************************************************************)
(* Response cache                                                          *)
(***************************************************************************)
CACHE_TTL == 5 * 60 * 1000

MutGetCachedInclusive(c, key, t) ==
    IF key \in DOMAIN c /\ t - c[key].timestamp <= CACHE_TTL
    THEN [value |-> c[key].data, cache |-> c]
    ELSE [value |-> Null, cache |-> [k \in DOMAIN c \ {key} |-> c[k]]]

\* getCached at time t: the value returned and the cache afterwards.
GetCached(c, key, t) ==
    IF key \in DOMAIN c /\ t - c[key].timestamp < CACHE_TTL
    THEN [value |-> c[key].data, cache |-> c]
    ELSE [value |-> Null, cache |-> [k \in DOMAIN c \ {key} |-> c[k]]]

\* setCache at time t: the cache afterwards.
SetCache(c, key, data, t) ==
    [k \in DOMAIN c \cup {key} |->
        IF k = key THEN [data |-> data, timestamp |-> t] ELSE c[k]]

\* The template literal `${username}-${year}-${token ? 'auth' : 'noauth'}`;
\* a token is a string, the empty string standing for no token too.
CacheKey(username, year, token) ==
    username \o "-" \o ToString(year) \o "-" \o (IF token # "" THEN "auth" ELSE "noauth")

(***************************************************************************)
(* Inputs: what the servers may answer                                     *)
(***************************************************************************)
\* The header values are strings of decimal digits, given digit by digit;
\* the reset instants are epoch seconds (small ones: 1970-01-02 01:01:01 and
\* 02:01:02).
HeadersA ==
    [remaining |-> <<5, 9>>, limit |-> <<6, 0>>,
     reset |-> <<9, 0, 0, 6, 1>>]

HeadersB ==
    [remaining |-> <<0>>, limit |-> <<6, 0>>,
     reset |-> <<9, 3, 6, 6, 2>>]

Without(headers, name) == [n \in DOMAIN headers \ {name} |-> headers[n]]

NoHeaders == Without(Without(Without(HeadersA, "remaining"), "limit"), "reset")

AllHeaderSets ==
    {NoHeaders, HeadersA, HeadersB, Without(HeadersB, "remaining"),
     Without(HeadersB, "limit"), Without(HeadersA, "reset")}

Statuses == {200, 403, 404, 500}


(***************************************************************************)
(* The paginators invoked on their own                                     *)
(***************************************************************************)
MaxItemsChoices == {0, 1, 50, 100, 150, 300}

PageLens == {0, 1, 100}

PageHeaderSets == {NoHeaders, HeadersA}

PageStatuses == {200, 404, 500}

NoLast == [op |-> "none"]

InitPage ==
    /\ now = 0
    /\ ticks = 0
    /\ cache = <<>>
    /\ rateLimitInfo = Null
    /\ calls = <<>>
    /\ started = 0
    /\ pag = IdlePaginator
    /\ last = NoLast

\* fetchUserRepos(user, max) or fetchUserEvents(user, max) is called.
PaginatorCall ==
    /\ pag.st = "idle"
    /\ \E kind \in {"repos", "events"}, user \in {"a"}, max \in MaxItemsChoices :
          /\ pag' = IF kind = "repos" THEN StartRepos(user, max)
                    ELSE StartEvents(user, max)
          /\ last' = [op |-> "call", kind |-> kind, max |-> max]
    /\ UNCHANGED <<now, ticks, cache, rateLimitInfo, calls, started>>

PageStep(resp) ==
    LET r == FetchGitHub(rateLimitInfo, resp)
    IN  /\ pag' = PaginatorOnResponse(pag, r)
        /\ rateLimitInfo' = r.rl
        /\ last' = [op |-> "page", resp |-> resp, ok |-> r.ok, error |-> r.error]
        /\ UNCHANGED <<now, ticks, cache, calls, started>>

\* The response to the page request in flight arrives.
PaginatorResponse ==
    /\ pag.st = "wait"
    /\ \E status \in PageStatuses, headers \in PageHeaderSets, n \in PageLens :
          PageStep(Response(status, headers,
                            PageBody(pag.kind, pag.user, pag.page, n)))

\* The page request in flight fails without a response.
PaginatorNoResponse ==
    /\ pag.st = "wait"
    /\ PageStep(NoResponse)

NextPage == PaginatorCall \/ PaginatorResponse \/ PaginatorNoResponse

SpecPage == InitPage /\ [][NextPage]_vars

(***************************************************************************)
(* Claims about the paginators (checked under SpecPage)                    *)
(***************************************************************************)
\* The step handles a page response (or the lack of one) of the paginator.
PageResponseStep == pag.st = "wait" /\ last'.op = "page"

\* C5: the sequence a paginator returns has at most the requested maximum
\* number of items and is the concatenation of the pages fetched, truncated
\* to the maximum.
C5_ReturnsAtMostMax ==
    pag.st = "done" =>
        /\ Len(pag.out) <= pag.max
        /\ pag.out = Slice(Concat(pag.seen), pag.max)

\* C6: once a page holds fewer items than the page size (zero included) no
\* further page is requested, and a call with maximum 50 issues exactly one
\* page request.
C6_ShortPageStops ==
    /\ [][(PageResponseStep /\ last'.ok /\ Len(last'.resp.body) < PerPage)
            => pag'.nreq = pag.nreq]_vars
    /\ [](pag.st \in {"done", "fail"} /\ pag.max = 50 => pag.nreq = 1)

\* C7: fetchUserEvents issues at most 3 page requests and never throws; when
\* a page fails it returns exactly the pages received before it, in order;
\* fetchUserRepos throws the error of a failing page and returns nothing.
C7_EventsSoftFailReposThrow ==
    /\ [](pag.kind = "events" => pag.nreq <= 3 /\ pag.st # "fail")
    /\ [][(PageResponseStep /\ ~last'.ok) =>
            IF pag.kind = "events"
            THEN /\ pag'.st = "done"
                 /\ pag'.out = Concat(pag.seen)
                 /\ pag'.nreq = pag.nreq
            ELSE /\ pag'.st = "fail"
                 /\ pag'.err = last'.error
                 /\ pag'.out = <<>>
                 /\ pag'.nreq = pag.nreq]_vars

\* C7 witness: the second events page came back 404 and the call returned
\* the 100 events of the first page.
C7_Witness ==
    /\ pag.kind = "events"
    /\ pag.st = "done"
    /\ last.op = "page"
    /\ ~last.ok
    /\ last.error.code = "NOT_FOUND"
    /\ pag.page = 2
    /\ Len(pag.out) = PerPage

(***************************************************************************)
(* The fetchers invoked one at a time                                      *)
(***************************************************************************)
\* What the contribution endpoints may answer for (user, year).
Summary(user, year) == [kind |-> "summary", user |-> user, year |-> year]

GraphQLBodies(user, year) ==
    {[errors |-> TRUE, collection |-> Null],
     [errors |-> FALSE, collection |-> Null],
     [errors |-> FALSE, collection |-> Summary(user, year)]}

\* 1970-01-03 was a Saturday, 1970-01-04 a Sunday.
CalendarBodies(user, year) ==
    {[contributions |-> <<>>, total |-> <<>>],
     [contributions |-> <<[date |-> 2, count |-> 4], [date |-> 3, count |-> 0]>>,
      total |-> [y \in {year} |-> 7]]}

InitFetch == InitPage

\* One fetchGitHub request (a profile request) is answered.
FetchGitHubCall ==
    /\ \E status \in Statuses, headers \in AllHeaderSets :
          LET resp == Response(status, headers, [login |-> "a"])
              r == FetchGitHub(rateLimitInfo, resp)
          IN  /\ rateLimitInfo' = r.rl
              /\ last' = [op |-> "fetchGitHub", resp |-> resp, ok |-> r.ok,
                          value |-> r.value, error |-> r.error]
    /\ UNCHANGED <<now, ticks, cache, calls, started, pag>>

\* One fetchGitHub request fails without a response.
FetchGitHubNoResponse ==
    /\ LET r == FetchGitHub(rateLimitInfo, NoResponse)
       IN  /\ rateLimitInfo' = r.rl
           /\ last' = [op |-> "fetchGitHub", resp |-> NoResponse, ok |-> r.ok,
                       value |-> r.value, error |-> r.error]
    /\ UNCHANGED <<now, ticks, cache, calls, started, pag>>

\* fetchContributionData(user, year, token) with a token is answered.
ContributionDataCall ==
    /\ \E status \in Statuses, headers \in {NoHeaders, HeadersA, HeadersB},
          body \in GraphQLBodies("a", 2024) :
          LET resp == Response(status, headers, body)
              r == FetchContributionData("t", resp)
          IN  last' = [op |-> "fetchContributionData", resp |-> resp, ok |-> r.ok,
                       value |-> r.value, error |-> r.error,
                       token |-> "t", sent |-> r.sent]
    /\ UNCHANGED <<now, ticks, cache, rateLimitInfo, calls, started, pag>>

\* fetchContributionData(user, year) is called without a token.
ContributionDataNoToken ==
    /\ LET r == FetchContributionData("", NoResponse)
       IN  last' = [op |-> "fetchContributionData", resp |-> NoResponse, ok |-> r.ok,
                    value |-> r.value, error |-> r.error,
                    token |-> "", sent |-> r.sent]
    /\ UNCHANGED <<now, ticks, cache, rateLimitInfo, calls, started, pag>>

\* fetchContributionCalendarFallback(user, year) is answered.
CalendarFallbackCall ==
    /\ \E status \in Statuses, headers \in {NoHeaders, HeadersA, HeadersB},
          body \in CalendarBodies("a", 2024) :
          LET resp == Response(status, headers, body)
          IN  last' = [op |-> "fetchContributionCalendarFallback", resp |-> resp,
                       ok |-> TRUE, value |-> ContributionCalendarFallback(resp, 2024),
                       error |-> Null]
    /\ UNCHANGED <<now, ticks, cache, rateLimitInfo, calls, started, pag>>

\* A contribution request fails without a response.
ContributionNoResponse ==
    /\ \/ LET r == FetchContributionData("t", NoResponse)
          IN  last' = [op |-> "fetchContributionData", resp |-> NoResponse,
                       ok |-> r.ok, value |-> r.value, error |-> r.error,
                       token |-> "t", sent |-> r.sent]
       \/ last' = [op |-> "fetchContributionCalendarFallback", resp |-> NoResponse,
                   ok |-> TRUE,
                   value |-> ContributionCalendarFallback(NoResponse, 2024),
                   error |-> Null]
    /\ UNCHANGED <<now, ticks, cache, rateLimitInfo, calls, started, pag>>

\* getRateLimitInfo()
GetRateLimitInfo ==
    /\ last' = [op |-> "getRateLimitInfo", resp |-> NoResponse, ok |-> TRUE,
                value |-> rateLimitInfo, error |-> Null]
    /\ UNCHANGED <<now, ticks, cache, rateLimitInfo, calls, started, pag>>

NextFetch ==
    \/ FetchGitHubCall
    \/ FetchGitHubNoResponse
    \/ ContributionDataCall
    \/ ContributionDataNoToken
    \/ CalendarFallbackCall
    \/ ContributionNoResponse
    \/ GetRateLimitInfo

SpecFetch == InitFetch /\ [][NextFetch]_vars

(***************************************************************************)
(* Claims about the rate-limit state and fetchGitHub (under SpecFetch)     *)
(***************************************************************************)
\* The step receives a response (of any fetcher).
ReceivesResponse ==
    /\ last'.op \in {"fetchGitHub", "fetchContributionData",
                     "fetchContributionCalendarFallback"}
    /\ last'.resp.net

CarriesQuota(headers) == {"remaining", "limit", "reset"} \subseteq DOMAIN headers

\* The rate-limit state a response with all three quota headers describes.
QuotaOf(headers) ==
    IF headers = HeadersA
    THEN [remaining |-> 59, limit |-> 60, resetTime |-> 90061000]
    ELSE [remaining |-> 0, limit |-> 60, resetTime |-> 93662000]

\* C8: a response handed to updateRateLimit replaces the rate-limit state by
\* its values exactly when it carries all three quota headers and leaves it
\* as it was otherwise; nothing else writes the state, and getRateLimitInfo
\* returns it.
C8_UpdateRateLimit ==
    [][/\ (last'.op = "fetchGitHub" /\ last'.resp.net) =>
            rateLimitInfo' = IF CarriesQuota(last'.resp.headers)
                             THEN QuotaOf(last'.resp.headers)
                             ELSE rateLimitInfo
       /\ ~(last'.op = "fetchGitHub" /\ last'.resp.net) =>
            rateLimitInfo' = rateLimitInfo
       /\ last'.op = "getRateLimitInfo" => last'.value = rateLimitInfo]_vars

\* C8 witness: a state recorded from one response has survived a response
\* that lacks one of the three headers.
C8_Witness ==
    /\ last.op = "fetchGitHub"
    /\ last.resp.net
    /\ DOMAIN last.resp.headers = {"limit", "reset"}
    /\ rateLimitInfo = [remaining |-> 59, limit |-> 60, resetTime |-> 90061000]

\* C9: every response that carries the three quota headers overwrites the
\* rate-limit state, whichever fetcher received it.
C9_EveryResponseUpdates ==
    [][(ReceivesResponse /\ CarriesQuota(last'.resp.headers)) =>
            rateLimitInfo' = QuotaOf(last'.resp.headers)]_vars

\* The time of day toLocaleTimeString shows for the two reset instants.
ResetText(rl) == IF rl.resetTime = 90061000 THEN "01:01:01" ELSE "02:01:02"

\* C10: fetchGitHub turns a non-success response into an error by its status
\* alone (404 NOT_FOUND, 403 RATE_LIMITED, otherwise no code); the 403
\* message names the reset time of the state as it stands after the
\* response's own headers were applied, and "soon" exactly when no state
\* was ever recorded.
C10_ErrorClassification ==
    [][(last'.op = "fetchGitHub" /\ last'.resp.net /\ ~ResponseOk(last'.resp)) =>
            /\ ~last'.ok
            /\ last'.error.name = "GitHubApiError"
            /\ last'.error.status = last'.resp.status
            /\ last'.error.code =
                   (CASE last'.resp.status = 404 -> "NOT_FOUND"
                      [] last'.resp.status = 403 -> "RATE_LIMITED"
                      [] OTHER -> "undefined")
            /\ last'.resp.status = 403 =>
                   last'.error.message =
                       "API rate limit exceeded. Try again at "
                           \o (IF rateLimitInfo' = Null THEN "soon"
                               ELSE ResetText(rateLimitInfo'))]_vars

\* C10 witness: a 403 whose own headers moved the reset time, and whose
\* message names the new one.
C10_Witness ==
    /\ last.op = "fetchGitHub"
    /\ last.resp.status = 403
    /\ last.resp.headers = HeadersB
    /\ last.error.message = "API rate limit exceeded. Try again at 02:01:02"

\* The request of a fetchContributionData call failed: no response came, or
\* one with a non-success status, or one whose body has an error list.
ContributionRequestFailed(resp) ==
    IF ~resp.net THEN TRUE
    ELSE IF ~ResponseOk(resp) THEN TRUE
    ELSE resp.body.errors

\* C11: fetchContributionData without a token sends no request and returns
\* null; with a token it returns null after a request that got no
\* response, a non-success status or a body with an error list, and
\* otherwise the collection of the body; it never throws.
C11_ContributionQueryNeverRaises ==
    [][last'.op = "fetchContributionData" =>
          /\ last'.ok
          /\ last'.error = Null
          /\ last'.sent = (last'.token # "")
          /\ last'.value =
                 IF last'.token = "" THEN Null
                 ELSE IF ContributionRequestFailed(last'.resp) THEN Null
                 ELSE last'.resp.body.collection]_vars

\* C11 witness: a call with a token was answered 200 with an error list
\* and returned null.
C11_Witness ==
    /\ last.op = "fetchContributionData"
    /\ last.token # ""
    /\ last.sent
    /\ last.resp.net
    /\ last.resp.status = 200
    /\ last.resp.body.errors
    /\ last.ok
    /\ last.value = Null

(***************************************************************************)
(* The cache operated on its own                                           *)
(***************************************************************************)
MaxTicks == 3

TickSteps == {1, CACHE_TTL - 1}

\* The clock advances by one of `steps`, at most maxTicks times in a run.
ClockAdvances(steps, maxTicks) ==
    /\ ticks < maxTicks
    /\ \E d \in steps : now' = now + d
    /\ ticks' = ticks + 1
    /\ UNCHANGED <<cache, rateLimitInfo, calls, started, pag, last>>

CacheKeys == {CacheKey("a", 2024, ""), CacheKey("a", 2024, "t")}

CacheData == {[bundle |-> 1], [bundle |-> 2]}

InitCache == InitPage

Tick == ClockAdvances(TickSteps, MaxTicks)

\* setCache(key, data)
SetCacheCall ==
    /\ \E key \in CacheKeys, data \in CacheData :
          /\ cache' = SetCache(cache, key, data, now)
          /\ last' = [op |-> "setCache", key |-> key, at |-> now, value |-> data,
                      age |-> 0]
    /\ UNCHANGED <<now, ticks, rateLimitInfo, calls, started, pag>>

\* getCached(key)
GetCachedCall ==
    /\ \E key \in CacheKeys :
          LET g == GetCached(cache, key, now)
          IN  /\ cache' = g.cache
              /\ last' = [op |-> "getCached", key |-> key, at |-> now,
                          value |-> g.value,
                          age |-> IF key \in DOMAIN cache
                                  THEN now - cache[key].timestamp ELSE -1]
    /\ UNCHANGED <<now, ticks, rateLimitInfo, calls, started, pag>>

NextCache == Tick \/ SetCacheCall \/ GetCachedCall

SpecCache == InitCache /\ [][NextCache]_vars

\* C3: getCached(key) returns the stored value exactly when an entry for
\* key exists and is less than 5 minutes (300000 ms) old, leaving the cache
\* as it is; otherwise it returns null and no entry for key remains.  A set
\* stores the value with the current time.
C3_GetCached ==
    [][/\ (now' = now /\ last'.op = "getCached") =>
            LET key == last'.key
            IN  IF key \in DOMAIN cache /\ now - cache[key].timestamp < 300000
                THEN last'.value = cache[key].data /\ cache' = cache
                ELSE /\ last'.value = Null
                     /\ key \notin DOMAIN cache'
                     /\ \A k \in DOMAIN cache \ {key} :
                            k \in DOMAIN cache' /\ cache'[k] = cache[k]
       /\ (now' = now /\ last'.op = "setCache") =>
            /\ last'.key \in DOMAIN cache'
            /\ cache'[last'.key] = [data |-> last'.value, timestamp |-> now]]_vars

\* C3 witness: a get found an entry exactly 5 minutes old, returned null
\* and evicted it, while the other entry stayed.
C3_Witness ==
    /\ last.op = "getCached"
    /\ last.value = Null
    /\ last.age = 300000
    /\ last.key \notin DOMAIN cache
    /\ DOMAIN cache # {}

(***************************************************************************)
(* fetchAllGitHubData                                                      *)
(***************************************************************************)
\* A single request: st = "wait" is the request in flight, "ok" a value
\* resolved, "fail" an error thrown; nreq counts the requests issued and
\* status records the HTTP status received (0: none).
IdleFetch == [st |-> "idle", value |-> Null, err |-> Null, nreq |-> 0, status |-> 0]

Waiting == [IdleFetch EXCEPT !.st = "wait", !.nreq = 1]

Resolved(f, value) == [f EXCEPT !.st = "ok", !.value = value]

Answered(f, resp) == [f EXCEPT !.status = resp.status]

IdleCall ==
    [pc |-> "idle", username |-> "", year |-> 0, token |-> "", key |-> "",
     fromCache |-> FALSE, result |-> Null, error |-> Null,
     profile |-> IdleFetch, repos |-> IdlePaginator, events |-> IdlePaginator,
     contributionData |-> IdleFetch, contributionCalendar |-> IdleFetch]

\* All five promises handed to Promise.all are fulfilled.
AllFulfilled(call) ==
    /\ call.profile.st = "ok"
    /\ call.repos.st = "done"
    /\ call.events.st = "done"
    /\ call.contributionData.st = "ok"
    /\ call.contributionCalendar.st = "ok"

\* A request of the call is still in flight.
InFlight(call) ==
    \/ call.profile.st = "wait"
    \/ call.repos.st = "wait"
    \/ call.events.st = "wait"
    \/ call.contributionData.st = "wait"
    \/ call.contributionCalendar.st = "wait"

\* The call has been made and has neither returned nor failed, or still has
\* requests in flight.
Active(call) == call.pc = "running" \/ InFlight(call)

\* The number of network requests the call has issued.
Requests(call) ==
    call.profile.nreq + call.repos.nreq + call.events.nreq
        + call.contributionData.nreq + call.contributionCalendar.nreq

\* The object assembled from the five results.
Bundle(call) ==
    [user |-> call.profile.value,
     repos |-> call.repos.out,
     events |-> call.events.out,
     contributionData |-> call.contributionData.value,
     contributionCalendar |-> call.contributionCalendar.value]

\* The events fetch of the call ended on a failed page: a request was made
\* whose page was never received.
SoftFailed(call) ==
    call.events.st = "done" /\ call.events.nreq > Len(call.events.seen)

MutSettleSkipsDegraded(c, call, rejected) ==
    IF call.pc # "running"
    THEN /\ calls' = [calls EXCEPT ![c] = call]
         /\ cache' = cache
    ELSE IF rejected # Null
    THEN /\ calls' = [calls EXCEPT ![c] = [call EXCEPT !.pc = "failed", !.error = rejected]]
         /\ cache' = cache
    ELSE IF AllFulfilled(call)
    THEN /\ calls' = [calls EXCEPT ![c] =
                         [call EXCEPT !.pc = "returned", !.result = Bundle(call)]]
         /\ cache' = IF SoftFailed(call) THEN cache
                     ELSE SetCache(cache, call.key, Bundle(call), now)
    ELSE /\ calls' = [calls EXCEPT ![c] = call]
         /\ cache' = cache

MutSettleCachesOnFailure(c, call, rejected) ==
    IF call.pc # "running"
    THEN /\ calls' = [calls EXCEPT ![c] = call]
         /\ cache' = cache
    ELSE IF rejected # Null
    THEN /\ calls' = [calls EXCEPT ![c] = [call EXCEPT !.pc = "failed", !.error = rejected]]
         /\ cache' = SetCache(cache, call.key, Bundle(call), now)
    ELSE IF AllFulfilled(call)
    THEN /\ calls' = [calls EXCEPT ![c] =
                         [call EXCEPT !.pc = "returned", !.result = Bundle(call)]]
         /\ cache' = SetCache(cache, call.key, Bundle(call), now)
    ELSE /\ calls' = [calls EXCEPT ![c] = call]
         /\ cache' = cache

\* What follows in fetchAllGitHubData when one of its five promises settles
\* (call: the call with that promise settled; rejected: the error it
\* rejected with, or Null): Promise.all rejects on the first rejection,
\* and is fulfilled once all five are; then the bundle is cached and
\* returned.  After the call has failed its remaining requests go on.
Settle(c, call, rejected) ==
    IF call.pc # "running"
    THEN /\ calls' = [calls EXCEPT ![c] = call]
         /\ cache' = cache
    ELSE IF rejected # Null
    THEN /\ calls' = [calls EXCEPT ![c] = [call EXCEPT !.pc = "failed", !.error = rejected]]
         /\ cache' = cache
    ELSE IF AllFulfilled(call)
    THEN /\ calls' = [calls EXCEPT ![c] =
                         [call EXCEPT !.pc = "returned", !.result = Bundle(call)]]
         /\ cache' = SetCache(cache, call.key, Bundle(call), now)
    ELSE /\ calls' = [calls EXCEPT ![c] = call]
         /\ cache' = cache

\* fetchAllGitHubData(username, year, token) is called: the cache lookup
\* and, on a miss, the launch of the five fetches.  Calls are numbered in
\* the order they are made; at most maxConcurrent are active at a time.
FetchAllGitHubData(c, username, year, token, maxConcurrent) ==
    /\ c = started + 1
    /\ c \in DOMAIN calls
    /\ Cardinality({d \in DOMAIN calls : Active(calls[d])}) < maxConcurrent
    /\ started' = c
    /\ LET cacheKey == CacheKey(username, year, token)
           cached == GetCached(cache, cacheKey, now)
           call == [IdleCall EXCEPT !.username = username, !.year = year,
                                    !.token = token, !.key = cacheKey]
       IN  /\ cache' = cached.cache
           /\ calls' = [calls EXCEPT ![c] =
                  IF cached.value # Null
                  THEN [call EXCEPT !.pc = "returned", !.fromCache = TRUE,
                                    !.result = cached.value]
                  ELSE [call EXCEPT
                           !.pc = "running",
                           !.profile = Waiting,
                           !.repos = StartRepos(username, 100),
                           !.events = StartEvents(username, 300),
                           !.contributionData =
                               IF token # "" THEN Waiting
                               ELSE Resolved(IdleFetch, Null),
                           !.contributionCalendar = Waiting]]
    /\ UNCHANGED <<now, ticks, rateLimitInfo, pag, last>>

\* The profile request of call c is answered (or fails without a response).
ProfileResponse(c, resp) ==
    /\ calls[c].profile.st = "wait"
    /\ LET r == FetchGitHub(rateLimitInfo, resp)
           call == [calls[c] EXCEPT !.profile =
                       IF r.ok THEN Resolved(Answered(@, resp), r.value)
                       ELSE [Answered(@, resp) EXCEPT !.st = "fail", !.err = r.error]]
       IN  /\ rateLimitInfo' = r.rl
           /\ Settle(c, call, r.error)
    /\ UNCHANGED <<now, ticks, started, pag, last>>

\* A repository page of call c is answered.
ReposResponse(c, resp) ==
    /\ calls[c].repos.st = "wait"
    /\ LET r == FetchGitHub(rateLimitInfo, resp)
           call == [calls[c] EXCEPT !.repos = ReposOnResponse(@, r)]
       IN  /\ rateLimitInfo' = r.rl
           /\ Settle(c, call, call.repos.err)
    /\ UNCHANGED <<now, ticks, started, pag, last>>

\* An events page of call c is answered.
EventsResponse(c, resp) ==
    /\ calls[c].events.st = "wait"
    /\ LET r == FetchGitHub(rateLimitInfo, resp)
           call == [calls[c] EXCEPT !.events = EventsOnResponse(@, r)]
       IN  /\ rateLimitInfo' = r.rl
           /\ Settle(c, call, call.events.err)
    /\ UNCHANGED <<now, ticks, started, pag, last>>

\* The authenticated contribution query of call c is answered.
ContributionDataResponse(c, resp) ==
    /\ calls[c].contributionData.st = "wait"
    /\ LET call == [calls[c] EXCEPT !.contributionData =
                       Resolved(Answered(@, resp), ContributionData(resp))]
       IN  Settle(c, call, Null)
    /\ UNCHANGED <<now, ticks, rateLimitInfo, started, pag, last>>

\* The fallback calendar request of call c is answered.
CalendarFallbackResponse(c, resp) ==
    /\ calls[c].contributionCalendar.st = "wait"
    /\ LET call == [calls[c] EXCEPT !.contributionCalendar =
                       Resolved(Answered(@, resp),
                                ContributionCalendarFallback(resp, calls[c].year))]
       IN  Settle(c, call, Null)
    /\ UNCHANGED <<now, ticks, rateLimitInfo, started, pag, last>>

(***************************************************************************)
(* Acquisitions made one after the other                                   *)
(***************************************************************************)
MaxCalls == 2

MaxConcurrent == 1

MaxClockSteps == 1

\* (username, year, token) of the calls made.  The year comes from
\* parseInt of a URL parameter (src/src/App.tsx:27) and the user name from
\* the URL or the form: neither is validated.
CallArguments ==
    {<<"a", 2024, "">>, <<"a", 2024, "t">>, <<"a", -2024, "">>, <<"a-", 2024, "">>}

MainStatuses == {200, 404}

MainHeaderSets == {HeadersA}

MainPageLens == {1}

MainCalendarBodies(user, year) ==
    {[contributions |-> <<[date |-> 2, count |-> 4], [date |-> 3, count |-> 0]>>,
      total |-> [y \in {year} |-> 7]]}

MainGraphQLBodies(user, year) ==
    {[errors |-> FALSE, collection |-> Summary(user, year)]}

Init ==
    /\ now = 0
    /\ ticks = 0
    /\ cache = <<>>
    /\ rateLimitInfo = Null
    /\ calls = [c \in 1..MaxCalls |-> IdleCall]
    /\ started = 0
    /\ pag = IdlePaginator
    /\ last = NoLast

CallMade ==
    \E c \in DOMAIN calls, args \in CallArguments :
        FetchAllGitHubData(c, args[1], args[2], args[3], MaxConcurrent)

ProfileArrives ==
    \E c \in DOMAIN calls, status \in MainStatuses, headers \in MainHeaderSets :
        ProfileResponse(c, Response(status, headers, [login |-> calls[c].username]))

ReposArrives ==
    \E c \in DOMAIN calls, status \in MainStatuses, headers \in MainHeaderSets,
       n \in MainPageLens :
        ReposResponse(c, Response(status, headers,
            PageBody("repos", calls[c].username, calls[c].repos.page, n)))

EventsArrives ==
    \E c \in DOMAIN calls, status \in MainStatuses, headers \in MainHeaderSets,
       n \in MainPageLens :
        EventsResponse(c, Response(status, headers,
            PageBody("events", calls[c].username, calls[c].events.page, n)))

ContributionDataArrives ==
    \E c \in DOMAIN calls, status \in MainStatuses, headers \in MainHeaderSets :
        \E body \in MainGraphQLBodies(calls[c].username, calls[c].year) :
            ContributionDataResponse(c, Response(status, headers, body))

CalendarFallbackArrives ==
    \E c \in DOMAIN calls, status \in MainStatuses, headers \in MainHeaderSets :
        \E body \in MainCalendarBodies(calls[c].username, calls[c].year) :
            CalendarFallbackResponse(c, Response(status, headers, body))

ClockStep == ClockAdvances({CACHE_TTL}, MaxClockSteps)

Next ==
    \/ CallMade
    \/ ProfileArrives
    \/ ReposArrives
    \/ EventsArrives
    \/ ContributionDataArrives
    \/ CalendarFallbackArrives
    \/ ClockStep

Spec == Init /\ [][Next]_vars

(***************************************************************************)
(* Claims about fetchAllGitHubData (checked under Spec)                    *)
(***************************************************************************)
ProfileRejects(c) == calls[c].profile.st = "wait" /\ calls'[c].profile.st = "fail"

ReposRejects(c) == calls[c].repos.st = "wait" /\ calls'[c].repos.st = "fail"

\* The events fetch settles on a failed page: it ends without having
\* received a further page.
EventsSoftFails(c) ==
    /\ calls[c].events.st = "wait"
    /\ calls'[c].events.st # "wait"
    /\ calls'[c].events.seen = calls[c].events.seen

\* C1: a failing profile or repository fetch makes the running call fail
\* with that error and the cache is left as it is, by that step and by
\* every later step of the failed call; nothing else makes a call fail: a
\* failing events page ends the events fetch with the list collected so
\* far, a contribution request answered with a non-success status gives
\* null, and the bundle returned is made of these values.
C1_FailurePolicy ==
    [][\A c \in DOMAIN calls :
        /\ (calls[c].pc = "running" /\ ProfileRejects(c)) =>
              /\ calls'[c].pc = "failed"
              /\ calls'[c].error = calls'[c].profile.err
              /\ cache' = cache
        /\ (calls[c].pc = "running" /\ ReposRejects(c)) =>
              /\ calls'[c].pc = "failed"
              /\ calls'[c].error = calls'[c].repos.err
              /\ cache' = cache
        /\ (calls[c].pc = "running" /\ calls'[c].pc = "failed") =>
              ProfileRejects(c) \/ ReposRejects(c)
        /\ (calls[c].pc = "failed" /\ calls'[c] # calls[c]) => cache' = cache
        /\ EventsSoftFails(c) =>
              /\ calls'[c].events.st = "done"
              /\ calls'[c].events.out = Concat(calls[c].events.seen)
        /\ calls'[c].events.st # "fail"
        /\ calls'[c].contributionData.st # "fail"
        /\ calls'[c].contributionCalendar.st # "fail"
        /\ calls'[c].contributionData.status \notin {0, 200} =>
              calls'[c].contributionData.value = Null
        /\ calls'[c].contributionCalendar.status \notin {0, 200} =>
              calls'[c].contributionCalendar.value = Null
        /\ (calls[c].pc = "running" /\ calls'[c].pc = "returned") =>
              calls'[c].result =
                  [user |-> calls'[c].profile.value,
                   repos |-> calls'[c].repos.out,
                   events |-> calls'[c].events.out,
                   contributionData |-> calls'[c].contributionData.value,
                   contributionCalendar |-> calls'[c].contributionCalendar.value]
      ]_vars

\* C1 witness: the first call returned a bundle whose events stop at the
\* page that failed and whose contribution values are null after failed
\* requests; the second call failed on the profile and the entry of the
\* first is still cached.
C1_Witness ==
    /\ calls[1].pc = "returned"
    /\ calls[1].events.nreq = 2
    /\ Len(calls[1].result.events) = 1
    /\ calls[1].contributionData.status = 404
    /\ calls[1].result.contributionData = Null
    /\ calls[1].contributionCalendar.status = 404
    /\ calls[1].result.contributionCalendar = Null
    /\ calls[2].pc = "failed"
    /\ calls[2].profile.st = "fail"
    /\ calls[2].error.code = "NOT_FOUND"
    /\ calls[1].key \in DOMAIN cache
    /\ cache[calls[1].key].data = calls[1].result

\* C2: a call that missed the cache neither returns nor fails while one of
\* the fetches it launched is still in flight.
C2_CompletesAfterAllSettle ==
    \A c \in DOMAIN calls :
        (calls[c].pc \in {"returned", "failed"} /\ ~calls[c].fromCache) =>
            ~InFlight(calls[c])

\* C4: a call is answered from the cache, without any network request,
\* only with the bundle of an earlier call that had the same username, the
\* same year and the same auth mode.
C4_CacheHitSameRequest ==
    \A c \in DOMAIN calls :
        calls[c].fromCache =>
            /\ Requests(calls[c]) = 0
            /\ \E d \in 1..(c - 1) :
                  /\ calls[d].pc = "returned"
                  /\ calls[d].result = calls[c].result
                  /\ calls[d].username = calls[c].username
                  /\ calls[d].year = calls[c].year
                  /\ (calls[d].token # "") = (calls[c].token # "")

(***************************************************************************)
(* Acquisitions made concurrently                                          *)
(***************************************************************************)
RaceConcurrent == 2

\* The calls of a race: the same request may be made twice.
RaceArguments == {<<"a", -2024, "">>, <<"a-", 2024, "">>, <<"a", -2024, "t">>}

RaceCallMade ==
    \E c \in DOMAIN calls, args \in RaceArguments :
        FetchAllGitHubData(c, args[1], args[2], args[3], RaceConcurrent)

\* In a race the profile endpoint answers 200 or 404 and the other
\* endpoints answer 200.
RaceProfileStatuses == {200, 404}

RaceProfileArrives ==
    \E c \in DOMAIN calls, status \in RaceProfileStatuses, headers \in MainHeaderSets :
        ProfileResponse(c, Response(status, headers, [login |-> calls[c].username]))

RaceReposArrives ==
    \E c \in DOMAIN calls, headers \in MainHeaderSets, n \in MainPageLens :
        ReposResponse(c, Response(200, headers,
            PageBody("repos", calls[c].username, calls[c].repos.page, n)))

RaceEventsArrives ==
    \E c \in DOMAIN calls, headers \in MainHeaderSets, n \in MainPageLens :
        EventsResponse(c, Response(200, headers,
            PageBody("events", calls[c].username, calls[c].events.page, n)))

RaceContributionDataArrives ==
    \E c \in DOMAIN calls, headers \in MainHeaderSets :
        \E body \in MainGraphQLBodies(calls[c].username, calls[c].year) :
            ContributionDataResponse(c, Response(200, headers, body))

RaceCalendarFallbackArrives ==
    \E c \in DOMAIN calls, headers \in MainHeaderSets :
        \E body \in MainCalendarBodies(calls[c].username, calls[c].year) :
            CalendarFallbackResponse(c, Response(200, headers, body))

NextRace ==
    \/ RaceCallMade
    \/ RaceProfileArrives
    \/ RaceReposArrives
    \/ RaceEventsArrives
    \/ RaceContributionDataArrives
    \/ RaceCalendarFallbackArrives
    \/ ClockStep

SpecRace == Init /\ [][NextRace]_vars

(***************************************************************************)
(* Claims about concurrent acquisitions (checked under SpecRace)           *)
(***************************************************************************)
\* Every part of bundle b that names a user or a year names this user and
\* this year, and b has a contribution summary only with a token.
AssembledFor(b, username, year, token) ==
    /\ b.user.login = username
    /\ \A i \in DOMAIN b.repos : b.repos[i].user = username
    /\ \A i \in DOMAIN b.events : b.events[i].user = username
    /\ b.contributionData \in
           (IF token # "" THEN {Null, Summary(username, year)} ELSE {Null})

\* Call c returns in this step after a cache miss.
ReturnsFetched(c) ==
    calls[c].pc = "running" /\ calls'[c].pc = "returned"

\* C12: whatever the interleaving of concurrent calls, every bundle
\* returned to a call, and every bundle cached under the key of a call, was
\* assembled from responses fetched for that call's username, year and
\* auth mode; a call that completes after a miss stores its own bundle
\* under its key and touches no other entry.
C12_ConcurrentBundlesBelongToRequest ==
    /\ [](\A c \in DOMAIN calls :
            /\ calls[c].pc = "returned" =>
                  AssembledFor(calls[c].result, calls[c].username,
                               calls[c].year, calls[c].token)
            /\ (calls[c].pc # "idle" /\ calls[c].key \in DOMAIN cache) =>
                  AssembledFor(cache[calls[c].key].data, calls[c].username,
                               calls[c].year, calls[c].token))
    /\ [][\A c \in DOMAIN calls :
            ReturnsFetched(c) =>
                /\ calls'[c].result = Bundle(calls'[c])
                /\ cache' = SetCache(cache, calls[c].key, calls'[c].result, now)]_vars

(***************************************************************************)
(* Dates                                                                   *)
(*                                                                         *)
(* An instant is a whole number of hours since 1970-01-01T00:00Z.  A       *)
(* calendar date "YYYY-MM-DD" is a number of days since 1970-01-01, and    *)
(* new Date("YYYY-MM-DD") is the instant of its UTC midnight.  A time zone *)
(* is [base, dst]: the local time is UTC + base hours before the instant   *)
(* dst and UTC + base + 1 hours from it on (dst = -1: no such change).     *)
(***************************************************************************)
DateOf(day) == 24 * day

Offset(t, zone) == zone.base + (IF zone.dst >= 0 /\ t >= zone.dst THEN 1 ELSE 0)

\* The local wall-clock time of instant t, in hours since 1970-01-01T00:00
\* local, and the local calendar day.
LocalHours(t, zone) == t + Offset(t, zone)

LocalDay(t, zone) == LocalHours(t, zone) \div 24

\* Date.prototype.getHours() and getDay().
GetHours(t, zone) == LocalHours(t, zone) % 24

GetLocalDay(t, zone) == (LocalDay(t, zone) + 4) % 7

IsLeap(y) == y % 4 = 0 /\ (y % 100 # 0 \/ y % 400 = 0)

DaysIn(y) == IF IsLeap(y) THEN 366 ELSE 365

\* The year of calendar day d and the day of that year (from 0), counting
\* from year y whose first day is day 0.
RECURSIVE YearFrom(_, _)
YearFrom(y, d) ==
    IF d < 0 THEN YearFrom(y - 1, d + DaysIn(y - 1))
    ELSE IF d < DaysIn(y) THEN [year |-> y, doy |-> d]
    ELSE YearFrom(y + 1, d - DaysIn(y))

\* Date.prototype.getFullYear()
GetFullYear(t, zone) == YearFrom(1970, LocalDay(t, zone)).year

MonthLengths(y) ==
    <<31, IF IsLeap(y) THEN 29 ELSE 28, 31, 30, 31, 30, 31, 31, 30, 31, 30, 31>>

RECURSIVE MonthFrom(_, _, _)
MonthFrom(lengths, m, d) ==
    IF d < lengths[m + 1] THEN m ELSE MonthFrom(lengths, m + 1, d - lengths[m + 1])

\* Date.prototype.getMonth(), 0 for January.
GetMonth(t, zone) ==
    LET yd == YearFrom(1970, LocalDay(t, zone))
    IN  MonthFrom(MonthLengths(yd.year), 0, yd.doy)

\* Date.prototype.setHours(0, 0, 0, 0): the instant of the local midnight
\* that begins the local day of t.
\* The instant at which local calendar day `day` begins (new Date(y, m, d)).
LocalMidnight(day, zone) ==
    LET standard == 24 * day - zone.base
    IN  IF zone.dst >= 0 /\ standard >= zone.dst THEN standard - 1 ELSE standard

SetHoursZero(t, zone) == LocalMidnight(LocalDay(t, zone), zone)

\* The calendar day on which year y begins.
RECURSIVE FirstDayOf(_)
FirstDayOf(y) == IF y <= 1970 THEN 0 ELSE FirstDayOf(y - 1) + DaysIn(y - 1)

\* The calendar day 2024-01-01 and the time zones: UTC, UTC-5, and
\* Central European Time, which moved to summer time on 2024-03-31 at
\* 01:00 UTC.
Day20240101 == 19723

UTC == [base |-> 0, dst |-> -1]

UTCMinus5 == [base |-> -5, dst |-> -1]

CET == [base |-> 1, dst |-> 24 * (Day20240101 + 90) + 1]

(***************************************************************************)
(* The insights engine                                                     *)
(*                                                                         *)
(* A repository is [name, fork, language, created_at, pushed_at,           *)
(* stargazers_count] with language "" for null (both are falsy and are     *)
(* only ever tested for truth); an event is [type, created_at, repo,       *)
(* commits] with commits the length of payload.commits, -1 when absent; a  *)
(* calendar is [totalContributions, weeks], a week being the sequence of  *)
(* its contributionDays [date, contributionCount, contributionLevel]; a    *)
(* contribution summary has the fields of ContributionData, an entry of    *)
(* commitContributionsByRepository being [name, stargazerCount,            *)
(* totalCount, primaryLanguage].  Times are instants.                      *)
(***************************************************************************)
\* a || b on numbers
OrElse(a, b) == IF a # 0 THEN a ELSE b

Max(a, b) == IF a > b THEN a ELSE b

\* Math.round(num / den * 100) for num >= 0, den > 0: halves round up.  The
\* quotient is a half only for den a multiple of 8 or of 40; up to 39 the
\* division is then exact in floating point.
RoundPercent(num, den) == (200 * num + den) \div (2 * den)

\* Array.prototype.sort with a comparator that orders by ascending key: the
\* sort is stable.  entries is a sequence of [k, v].
RECURSIVE InsertByKey(_, _)
InsertByKey(sorted, e) ==
    IF sorted = <<>> THEN <<e>>
    ELSE IF Head(sorted).k <= e.k THEN <<Head(sorted)>> \o InsertByKey(Tail(sorted), e)
    ELSE <<e>> \o sorted

RECURSIVE SortEntries(_, _)
SortEntries(entries, sorted) ==
    IF entries = <<>> THEN sorted
    ELSE SortEntries(Tail(entries), InsertByKey(sorted, Head(entries)))

\* items sorted by ascending keys[i], ties in the order of items.
SortByKey(items, keys) ==
    LET sorted == SortEntries([i \in DOMAIN items |-> [k |-> keys[i], v |-> items[i]]], <<>>)
    IN  [i \in DOMAIN sorted |-> sorted[i].v]

RECURSIVE SumSeq(_)
SumSeq(s) == IF s = <<>> THEN 0 ELSE Head(s) + SumSeq(Tail(s))

\* calendar.weeks.flatMap((week) => week.contributionDays)
FlatDays(weeks) == Concat(weeks)

\* The number of events of a type, and the set of repositories they name.
CountType(events, type) ==
    Cardinality({i \in DOMAIN events : events[i].type = type})

CountedTypes ==
    {"PushEvent", "PullRequestEvent", "IssuesEvent", "PullRequestReviewEvent"}

\* commits += payload.commits?.length || 1, over the push events
RECURSIVE PushCommits(_)
PushCommits(events) ==
    IF events = <<>> THEN 0
    ELSE (IF Head(events).type = "PushEvent"
          THEN (IF Head(events).commits > 0 THEN Head(events).commits ELSE 1)
          ELSE 0) + PushCommits(Tail(events))

\* calculateBasicStats
CalculateBasicStats(events, contributionData, contributionCalendar) ==
    LET calendarCommits ==
            IF contributionCalendar # Null
            THEN SumSeq([i \in DOMAIN FlatDays(contributionCalendar.weeks) |->
                            FlatDays(contributionCalendar.weeks)[i].contributionCount])
            ELSE 0
        commits == PushCommits(events)
        prs == CountType(events, "PullRequestEvent")
        issues == CountType(events, "IssuesEvent")
        reviews == CountType(events, "PullRequestReviewEvent")
        reposSet == {events[i].repo : i \in {j \in DOMAIN events :
                                                events[j].type \in CountedTypes}}
        finalCommits == IF calendarCommits > 0 THEN calendarCommits ELSE commits
    IN  IF contributionData # Null
        THEN [totalContributions |->
                  contributionData.contributionCalendar.totalContributions,
              commits |-> contributionData.totalCommitContributions,
              prs |-> contributionData.totalPullRequestContributions,
              issues |-> contributionData.totalIssueContributions,
              reviews |-> contributionData.totalPullRequestReviewContributions,
              reposContributedTo |->
                  contributionData.totalRepositoriesWithContributedCommits]
        ELSE [totalContributions |->
                  OrElse(IF contributionCalendar # Null
                         THEN contributionCalendar.totalContributions ELSE 0,
                         finalCommits + prs + issues + reviews),
              commits |-> finalCommits,
              prs |-> prs,
              issues |-> issues,
              reviews |-> reviews,
              reposContributedTo |-> Cardinality(reposSet)]

LANGUAGE_COLORS ==
    [JavaScript |-> "#f7df1e", TypeScript |-> "#3178c6", Python |-> "#3572A5",
     Java |-> "#b07219", Cpp |-> "#f34b7d", C |-> "#555555", Csharp |-> "#178600",
     Go |-> "#00ADD8", Rust |-> "#dea584", Ruby |-> "#701516", PHP |-> "#4F5D95",
     Swift |-> "#F05138", Kotlin |-> "#A97BFF", Dart |-> "#00B4AB",
     Scala |-> "#c22d40", Shell |-> "#89e051", HTML |-> "#e34c26",
     CSS |-> "#563d7c", Vue |-> "#41b883", SCSS |-> "#c6538c", Lua |-> "#000080",
     R |-> "#198CE7", Perl |-> "#0298c3", Haskell |-> "#5e5086",
     Elixir |-> "#6e4a7e", Clojure |-> "#db5855", Objective_C |-> "#438eff",
     Default |-> "#8b949e"]

\* getLanguageColor (the keys 'C++' and 'C#' are written Cpp and Csharp)
GetLanguageColor(language) ==
    IF language \in DOMAIN LANGUAGE_COLORS THEN LANGUAGE_COLORS[language]
    ELSE LANGUAGE_COLORS["Default"]

\* languageCounts[language] = (languageCounts[language] || 0) + 1, the
\* record kept as the sequence of its entries in insertion order.
CountLanguage(counts, language) ==
    IF \E i \in DOMAIN counts : counts[i].name = language
    THEN [i \in DOMAIN counts |->
             IF counts[i].name = language
             THEN [counts[i] EXCEPT !.count = @ + 1] ELSE counts[i]]
    ELSE Append(counts, [name |-> language, count |-> 1])

RECURSIVE MutLanguageCountsWithForks(_, _)
MutLanguageCountsWithForks(repos, counts) ==
    IF repos = <<>> THEN counts
    ELSE IF Head(repos).language # ""
    THEN MutLanguageCountsWithForks(Tail(repos), CountLanguage(counts, Head(repos).language))
    ELSE MutLanguageCountsWithForks(Tail(repos), counts)

RECURSIVE LanguageCounts(_, _)
LanguageCounts(repos, counts) ==
    IF repos = <<>> THEN counts
    ELSE IF Head(repos).language # "" /\ ~Head(repos).fork
    THEN LanguageCounts(Tail(repos), CountLanguage(counts, Head(repos).language))
    ELSE LanguageCounts(Tail(repos), counts)

MaxTopLanguages == 8

MutCalculateLanguageStatsOverAllRepos(repos) ==
    LET languageCounts == LanguageCounts(repos, <<>>)
        totalRepos == Len(repos)
        mapped == [i \in DOMAIN languageCounts |->
                      [name |-> languageCounts[i].name,
                       count |-> languageCounts[i].count,
                       percentage |-> RoundPercent(languageCounts[i].count, totalRepos),
                       color |-> GetLanguageColor(languageCounts[i].name)]]
        languages == SortByKey(mapped, [i \in DOMAIN mapped |-> 0 - mapped[i].count])
    IN  [topLanguages |-> Slice(languages, MaxTopLanguages),
         totalLanguages |-> Len(languages)]

\* calculateLanguageStats
CalculateLanguageStats(repos) ==
    LET languageCounts == LanguageCounts(repos, <<>>)
        totalRepos == SumSeq([i \in DOMAIN languageCounts |-> languageCounts[i].count])
        mapped == [i \in DOMAIN languageCounts |->
                      [name |-> languageCounts[i].name,
                       count |-> languageCounts[i].count,
                       percentage |-> RoundPercent(languageCounts[i].count, totalRepos),
                       color |-> GetLanguageColor(languageCounts[i].name)]]
        languages == SortByKey(mapped, [i \in DOMAIN mapped |-> 0 - mapped[i].count])
    IN  [topLanguages |-> Slice(languages, MaxTopLanguages),
         totalLanguages |-> Len(languages)]

MaxTopRepos == 6

MutCalculateTopReposByPushTime(repos, contributionData) ==
    LET NotFork(r) == ~r.fork
        own == SelectSeq(repos, NotFork)
        sorted == SortByKey(own, [i \in DOMAIN own |->
                      0 - (own[i].stargazers_count + 9 * own[i].pushed_at)])
        top == Slice(sorted, MaxTopRepos)
    IN  [i \in DOMAIN top |->
            [name |-> top[i].name, stars |-> top[i].stargazers_count,
             commits |-> 0, language |-> top[i].language]]

\* calculateTopRepos.  The fallback orders by stars + pushed_at / 1e12 with
\* pushed_at in milliseconds, that is by 2500000 * stars + 9 * pushed_at
\* with pushed_at in hours.
CalculateTopRepos(repos, contributionData) ==
    IF contributionData # Null
    THEN LET items == contributionData.commitContributionsByRepository
             mapped == [i \in DOMAIN items |->
                           [name |-> items[i].name, stars |-> items[i].stargazerCount,
                            commits |-> items[i].totalCount,
                            language |-> items[i].primaryLanguage]]
         IN  Slice(SortByKey(mapped, [i \in DOMAIN mapped |-> 0 - mapped[i].commits]),
                   MaxTopRepos)
    ELSE LET NotFork(r) == ~r.fork
             own == SelectSeq(repos, NotFork)
             sorted == SortByKey(own, [i \in DOMAIN own |->
                           0 - (2500000 * own[i].stargazers_count + 9 * own[i].pushed_at)])
             top == Slice(sorted, MaxTopRepos)
         IN  [i \in DOMAIN top |->
                 [name |-> top[i].name, stars |-> top[i].stargazers_count,
                  commits |-> 0, language |-> top[i].language]]

DAYS == <<"Sunday", "Monday", "Tuesday", "Wednesday", "Thursday", "Friday", "Saturday">>

MONTHS ==
    <<"Jan", "Feb", "Mar", "Apr", "May", "Jun", "Jul", "Aug", "Sep", "Oct", "Nov", "Dec">>

\* The argmax loop with `>=` in place of `>`: the last index wins a tie.
RECURSIVE MutFirstMaxFromLastWins(_, _, _, _, _)
MutFirstMaxFromLastWins(counts, i, n, maxCount, best) ==
    IF i > n THEN best
    ELSE IF counts[i] >= maxCount
         THEN MutFirstMaxFromLastWins(counts, i + 1, n, counts[i], i)
    ELSE MutFirstMaxFromLastWins(counts, i + 1, n, maxCount, best)

\* The loop `if (count > max) { max = count; best = index }` over the
\* entries of a record with keys 0..n in ascending order, from index i.
RECURSIVE FirstMaxFrom(_, _, _, _, _)
FirstMaxFrom(counts, i, n, maxCount, best) ==
    IF i > n THEN best
    ELSE IF counts[i] > maxCount THEN FirstMaxFrom(counts, i + 1, n, counts[i], i)
    ELSE FirstMaxFrom(counts, i + 1, n, maxCount, best)

FormatHour(h) ==
    IF h = 0 THEN "12 AM"
    ELSE IF h = 12 THEN "12 PM"
    ELSE IF h > 12 THEN ToString(h - 12) \o " PM" ELSE ToString(h) \o " AM"

\* events.forEach: hourActivity[date.getHours()]++
RECURSIVE HourLoop(_, _, _)
HourLoop(events, zone, hourActivity) ==
    IF events = <<>> THEN hourActivity
    ELSE HourLoop(Tail(events), zone,
                  [hourActivity EXCEPT ![GetHours(Head(events).created_at, zone)] = @ + 1])

\* The loop over the days of the calendar: the days of the year with a
\* count add it to their day of the week and to their month.
RECURSIVE CalendarDayLoop(_, _, _, _)
CalendarDayLoop(days, year, zone, tally) ==
    IF days = <<>> THEN tally
    ELSE LET day == Head(days)
             date == DateOf(day.date)
         IN  IF GetFullYear(date, zone) = year /\ day.contributionCount > 0
             THEN CalendarDayLoop(Tail(days), year, zone,
                      [dayActivity |->
                           [tally.dayActivity EXCEPT ![GetLocalDay(date, zone)] =
                                                         @ + day.contributionCount],
                       monthlyContributions |->
                           [tally.monthlyContributions EXCEPT ![GetMonth(date, zone)] =
                                                         @ + day.contributionCount]])
             ELSE CalendarDayLoop(Tail(days), year, zone, tally)

\* The fallback loop over the events: each adds one to its day of the week
\* and to its month.
RECURSIVE EventDayLoop(_, _, _)
EventDayLoop(events, zone, tally) ==
    IF events = <<>> THEN tally
    ELSE LET date == Head(events).created_at
         IN  EventDayLoop(Tail(events), zone,
                 [dayActivity |->
                      [tally.dayActivity EXCEPT ![GetLocalDay(date, zone)] = @ + 1],
                  monthlyContributions |->
                      [tally.monthlyContributions EXCEPT ![GetMonth(date, zone)] = @ + 1]])

\* calculateActivityPatterns
CalculateActivityPatterns(events, calendar, year, zone) ==
    LET hourActivity == HourLoop(events, zone, [h \in 0..23 |-> 0])
        empty == [dayActivity |-> [d \in 0..6 |-> 0],
                  monthlyContributions |-> [m \in 0..11 |-> 0]]
        tally == IF calendar # Null
                 THEN CalendarDayLoop(FlatDays(calendar.weeks), year, zone, empty)
                 ELSE EventDayLoop(events, zone, empty)
        dayActivity == tally.dayActivity
        monthlyContributions == tally.monthlyContributions
        mostProductiveDay == FirstMaxFrom(dayActivity, 0, 6, 0, 0)
        mostProductiveHour == FirstMaxFrom(hourActivity, 0, 23, 0, 0)
        peakStart == Max(0, mostProductiveHour - 1)
        peakEnd == Min(23, mostProductiveHour + 1)
    IN  [mostProductiveDay |-> DAYS[mostProductiveDay + 1],
         mostProductiveHour |-> mostProductiveHour,
         peakHourRange |-> FormatHour(peakStart) \o " - " \o FormatHour(peakEnd),
         activityByDay |->
             [name \in {DAYS[i] : i \in 1..7} |->
                 dayActivity[(CHOOSE i \in 1..7 : DAYS[i] = name) - 1]],
         activityByHour |-> hourActivity,
         monthlyActivity |->
             [m \in 1..12 |-> [month |-> MONTHS[m], year |-> year,
                               contributions |-> monthlyContributions[m - 1]]]]

\* The loop of calculateStreaks over the sorted days from index i.
RECURSIVE StreakLoop(_, _, _, _, _, _, _, _)
StreakLoop(allDays, i, today, zone, longestStreak, currentStreak, tempStreak, totalActiveDays) ==
    IF i > Len(allDays)
    THEN [longestStreak |-> Max(longestStreak, tempStreak),
          currentStreak |-> currentStreak,
          totalActiveDays |-> totalActiveDays]
    ELSE LET day == allDays[i]
             dayDate == SetHoursZero(DateOf(day.date), zone)
             diffDays == (today - dayDate) \div 24
         IN  IF day.contributionCount > 0
             THEN StreakLoop(allDays, i + 1, today, zone, longestStreak,
                             IF diffDays <= 1 THEN tempStreak + 1 ELSE currentStreak,
                             tempStreak + 1, totalActiveDays + 1)
             ELSE StreakLoop(allDays, i + 1, today, zone,
                             Max(longestStreak, tempStreak), currentStreak, 0,
                             totalActiveDays)

\* calculateStreaks, evaluated at instant t (new Date()).
CalculateStreaks(calendar, t, zone) ==
    IF calendar = Null
    THEN [longestStreak |-> 0, currentStreak |-> 0, totalActiveDays |-> 0]
    ELSE LET days == FlatDays(calendar.weeks)
             allDays == SortByKey(days, [i \in DOMAIN days |-> DateOf(days[i].date)])
         IN  StreakLoop(allDays, 1, SetHoursZero(t, zone), zone, 0, 0, 0, 0)

\* calculateScores
CalculateScores(events, repos) ==
    LET NotFork(r) == ~r.fork
        IsFork(r) == r.fork
        ownRepos == SelectSeq(repos, NotFork)
        forkedRepos == SelectSeq(repos, IsFork)
        issues == CountType(events, "IssuesEvent")
        prs == CountType(events, "PullRequestEvent")
    IN  [soloScore |->
             RoundPercent(Len(ownRepos), Max(1, Len(ownRepos) + Len(forkedRepos))),
         bugSlayerScore |->
             IF issues + prs > 0 THEN RoundPercent(issues, issues + prs) ELSE 50]

MutTitleRule4First(isNightOwl, isEarlyBird, isPolyglot, isWeekendWarrior, isSolo, bugSlayerScore, languages) ==
    IF isPolyglot /\ ~isSolo THEN "Open Source Champion"
    ELSE IF isNightOwl /\ isPolyglot THEN "Nocturnal Polyglot"
    ELSE IF isEarlyBird /\ isSolo THEN "Dawn Pioneer"
    ELSE IF isWeekendWarrior /\ bugSlayerScore > 60 THEN "Weekend Bug Hunter"
    ELSE IF isSolo /\ languages <= 2 THEN "Deep Specialist"
    ELSE IF isNightOwl /\ isWeekendWarrior THEN "Code Ninja"
    ELSE "Code Crafter"

\* The if / else-if chain of calculatePersonality that picks the title
\* (emoji and description go with the title); languages is languages.size.
Title(isNightOwl, isEarlyBird, isPolyglot, isWeekendWarrior, isSolo, bugSlayerScore, languages) ==
    IF isNightOwl /\ isPolyglot THEN "Nocturnal Polyglot"
    ELSE IF isEarlyBird /\ isSolo THEN "Dawn Pioneer"
    ELSE IF isWeekendWarrior /\ bugSlayerScore > 60 THEN "Weekend Bug Hunter"
    ELSE IF isPolyglot /\ ~isSolo THEN "Open Source Champion"
    ELSE IF isSolo /\ languages <= 2 THEN "Deep Specialist"
    ELSE IF isNightOwl /\ isWeekendWarrior THEN "Code Ninja"
    ELSE "Code Crafter"

\* calculatePersonality.  weekendActivity > weekdayActivity * 0.4 is
\* 5 * weekendActivity > 2 * weekdayActivity; the labels of the traits,
\* fixed by their names, are left out.
CalculatePersonality(events, repos, activity, scores) ==
    LET isNightOwl == activity.mostProductiveHour >= 20 \/ activity.mostProductiveHour < 6
        isEarlyBird == activity.mostProductiveHour >= 5 /\ activity.mostProductiveHour < 10
        languages == {repos[i].language : i \in DOMAIN repos} \ {""}
        size == Cardinality(languages)
        isPolyglot == size >= 5
        weekendActivity == activity.activityByDay["Saturday"]
                               + activity.activityByDay["Sunday"]
        weekdayActivity == activity.activityByDay["Monday"]
                               + activity.activityByDay["Tuesday"]
                               + activity.activityByDay["Wednesday"]
                               + activity.activityByDay["Thursday"]
                               + activity.activityByDay["Friday"]
        isWeekendWarrior == 5 * weekendActivity > 2 * weekdayActivity
        isSolo == scores.soloScore > 70
    IN  [title |-> Title(isNightOwl, isEarlyBird, isPolyglot, isWeekendWarrior,
                         isSolo, scores.bugSlayerScore, size),
         traits |->
             <<[name |-> IF isNightOwl THEN "Night Owl"
                         ELSE IF isEarlyBird THEN "Early Bird" ELSE "Daytime Coder",
                value |-> IF isNightOwl THEN 85 ELSE IF isEarlyBird THEN 15 ELSE 50],
               [name |-> IF isPolyglot THEN "Polyglot" ELSE "Specialist",
                value |-> Min(100, size * 15)],
               [name |-> IF isWeekendWarrior THEN "Weekend Warrior" ELSE "Weekday Wonder",
                value |-> IF isWeekendWarrior THEN 80 ELSE 30],
               [name |-> IF isSolo THEN "Solo Coder" ELSE "Team Player",
                value |-> scores.soloScore]>>]

\* The weeks built by the loop of createEmptyCalendar over the local days
\* first..lastDay: a week is closed before each Sunday that is not the
\* first day, so the day at offset k falls in week (getDay(first) + k) / 7;
\* the day pushed carries the UTC date of the local midnight
\* (toISOString().split('T')[0]).
EmptyWeeks(first, lastDay, zone) ==
    LET firstGetDay == (first + 4) % 7
        lastWeek == (firstGetDay + lastDay - first) \div 7 + 1
        Entry(day) == [date |-> LocalMidnight(day, zone) \div 24,
                       contributionCount |-> 0,
                       contributionLevel |-> "NONE"]
    IN  [w \in 1..lastWeek |->
            LET from == Max(first, first - firstGetDay + 7 * (w - 1))
                to == Min(lastDay, first - firstGetDay + 7 * w - 1)
            IN  [i \in 1..(to - from + 1) |-> Entry(from + i - 1)]]

\* createEmptyCalendar
CreateEmptyCalendar(year, zone) ==
    [totalContributions |-> 0,
     weeks |-> EmptyWeeks(FirstDayOf(year), FirstDayOf(year) + DaysIn(year) - 1, zone)]

MutBundleCalendarOrSummary(data) ==
    IF data.contributionCalendar # Null THEN data.contributionCalendar
    ELSE IF data.contributionData # Null
         THEN data.contributionData.contributionCalendar
    ELSE Null

\* The contributionCalendar that calculateInsights takes from the bundle.
BundleCalendar(data) == data.contributionCalendar

\* calculateInsights(data, year), evaluated at instant t in time zone zone.
CalculateInsights(data, year, t, zone) ==
    LET repos == data.repos
        events == data.events
        contributionData == data.contributionData
        contributionCalendar == BundleCalendar(data)
        InYear(e) == GetFullYear(e.created_at, zone) = year
        yearEvents == SelectSeq(events, InYear)
        yearRepos == SelectSeq(repos, InYear)
        basicStats == CalculateBasicStats(yearEvents, contributionData, contributionCalendar)
        languageStats == CalculateLanguageStats(repos)
        topRepos == CalculateTopRepos(repos, contributionData)
        activityPatterns == CalculateActivityPatterns(yearEvents, contributionCalendar,
                                                      year, zone)
        streaks == CalculateStreaks(contributionCalendar, t, zone)
        scores == CalculateScores(yearEvents, repos)
        personality == CalculatePersonality(yearEvents, repos, activityPatterns, scores)
        calendar == IF contributionCalendar # Null THEN contributionCalendar
                    ELSE CreateEmptyCalendar(year, zone)
    IN  [totalContributions |->
             OrElse(IF contributionData # Null
                    THEN contributionData.contributionCalendar.totalContributions ELSE 0,
                    OrElse(IF contributionCalendar # Null
                           THEN contributionCalendar.totalContributions ELSE 0,
                           basicStats.totalContributions)),
         totalCommits |->
             OrElse(IF contributionData # Null
                    THEN contributionData.totalCommitContributions ELSE 0,
                    basicStats.commits),
         totalPRs |->
             OrElse(IF contributionData # Null
                    THEN contributionData.totalPullRequestContributions ELSE 0,
                    basicStats.prs),
         totalIssues |->
             OrElse(IF contributionData # Null
                    THEN contributionData.totalIssueContributions ELSE 0,
                    basicStats.issues),
         totalReviews |->
             OrElse(IF contributionData # Null
                    THEN contributionData.totalPullRequestReviewContributions ELSE 0,
                    basicStats.reviews),
         repositoriesContributedTo |->
             OrElse(IF contributionData # Null
                    THEN contributionData.totalRepositoriesWithContributedCommits ELSE 0,
                    basicStats.reposContributedTo),
         newRepositoriesCreated |-> Len(yearRepos),
         topRepositories |-> topRepos,
         topLanguages |-> languageStats.topLanguages,
         totalLanguages |-> languageStats.totalLanguages,
         mostProductiveDay |-> activityPatterns.mostProductiveDay,
         mostProductiveHour |-> activityPatterns.mostProductiveHour,
         peakHourRange |-> activityPatterns.peakHourRange,
         activityByDay |-> activityPatterns.activityByDay,
         activityByHour |-> activityPatterns.activityByHour,
         monthlyActivity |-> activityPatterns.monthlyActivity,
         longestStreak |-> streaks.longestStreak,
         currentStreak |-> streaks.currentStreak,
         totalActiveDays |-> streaks.totalActiveDays,
         soloVsTeamScore |-> scores.soloScore,
         bugSlayerScore |-> scores.bugSlayerScore,
         contributionCalendar |-> calendar,
         personality |-> personality]

(***************************************************************************)
(* Repository lists handed to calculateLanguageStats and calculateScores   *)
(***************************************************************************)
\* A repository of the list endpoint, created and pushed on 2024-01-01.
Repo(name, fork, language, stars) ==
    [name |-> name, fork |-> fork, language |-> language,
     created_at |-> DateOf(Day20240101), pushed_at |-> DateOf(Day20240101),
     stargazers_count |-> stars]

LanguageNames ==
    <<"Go", "Rust", "C", "R", "Lua", "Dart", "PHP", "Perl", "Ruby", "Java", "Vue", "Zig">>

MaxLanguages == 9

MaxRepeated == 3

MaxForks == 2

\* n repositories that differ in their names only.
Copies(n, prefix, fork, language) ==
    [i \in 1..n |-> Repo(prefix \o ToString(i), fork, language, 0)]

\* counts[i] own repositories in language i, for i = from..MaxLanguages.
RECURSIVE OwnRepos(_, _)
OwnRepos(counts, from) ==
    IF from > Len(counts) THEN <<>>
    ELSE Copies(counts[from], LanguageNames[from], FALSE, LanguageNames[from])
             \o OwnRepos(counts, from + 1)

\* The lists: forks first (in the first language), then a repository
\* without language, then the own repositories language by language; the
\* first MaxRepeated languages have up to 2 repositories each, the others
\* at most one.
RepoLists ==
    {Copies(forks, "fork", TRUE, LanguageNames[1])
        \o Copies(plain, "plain", FALSE, "")
        \o OwnRepos(counts, 1) :
        forks \in 0..MaxForks, plain \in 0..1,
        counts \in {c \in [1..MaxLanguages -> 0..2] :
                       \A i \in DOMAIN c : i > MaxRepeated => c[i] <= 1}}

Event(type, at, repo, commits) ==
    [type |-> type, created_at |-> at, repo |-> repo, commits |-> commits]

\* The events handed to calculateScores with a repository list.
ScoreEvents ==
    {<<>>,
     <<Event("IssuesEvent", DateOf(Day20240101) + 7, "a/x", -1),
       Event("PullRequestEvent", DateOf(Day20240101) + 8, "a/x", -1),
       Event("IssuesEvent", DateOf(Day20240101) + 9, "a/y", -1)>>}

InitRepos ==
    /\ now = 0
    /\ ticks = 0
    /\ cache = <<>>
    /\ rateLimitInfo = Null
    /\ calls = [c \in 1..MaxCalls |-> IdleCall]
    /\ started = 0
    /\ pag = IdlePaginator
    /\ \E repos \in RepoLists : last = [op |-> "input", repos |-> repos]

\* calculateLanguageStats(repos)
CalculateLanguageStatsCall ==
    /\ last.op = "input"
    /\ last' = [op |-> "calculateLanguageStats", repos |-> last.repos,
                out |-> CalculateLanguageStats(last.repos)]
    /\ UNCHANGED <<now, ticks, cache, rateLimitInfo, calls, started, pag>>

\* calculateScores(events, repos)
CalculateScoresCall ==
    /\ last.op = "input"
    /\ \E events \in ScoreEvents :
          last' = [op |-> "calculateScores", repos |-> last.repos, events |-> events,
                   out |-> CalculateScores(events, last.repos)]
    /\ UNCHANGED <<now, ticks, cache, rateLimitInfo, calls, started, pag>>

NextRepos == CalculateLanguageStatsCall \/ CalculateScoresCall

SpecRepos == InitRepos /\ [][NextRepos]_vars

(***************************************************************************)
(* Claims about the language statistics and the scores (under SpecRepos)   *)
(***************************************************************************)
\* The number of repositories of the list that are not forks and have this
\* language.
CountedIn(repos, language) ==
    Cardinality({i \in DOMAIN repos : ~repos[i].fork /\ repos[i].language = language})

\* The languages of the repositories that are not forks.
CountedLanguages(repos) ==
    {repos[i].language : i \in {j \in DOMAIN repos : ~repos[j].fork}} \ {""}

\* p is num * 100 / den rounded to the nearest integer, halves up.
IsRoundedPercent(p, num, den) ==
    2 * p * den <= 200 * num + den /\ 200 * num + den < 2 * (p + 1) * den

\* C15: topLanguages lists only languages of repositories that are not
\* forks, each once with the number of such repositories and its rounded
\* share, by non-increasing count, at most 8 of them and the most counted
\* ones; totalLanguages is the number of all counted languages, beyond 8
\* too; own repositories Go, Go, Rust give Go 2 (67%), Rust 1 (33%) and 2.
C15_LanguageStats ==
    last.op = "calculateLanguageStats" =>
        LET repos == last.repos
            top == last.out.topLanguages
            all == CountedLanguages(repos)
            total == Cardinality({i \in DOMAIN repos :
                                     ~repos[i].fork /\ repos[i].language # ""})
        IN  /\ last.out.totalLanguages = Cardinality(all)
            /\ Len(top) = Min(8, Cardinality(all))
            /\ \A i \in DOMAIN top :
                  /\ top[i].name \in all
                  /\ top[i].count = CountedIn(repos, top[i].name)
                  /\ IsRoundedPercent(top[i].percentage, top[i].count, total)
            /\ \A i, j \in DOMAIN top :
                  /\ i < j => top[i].count >= top[j].count
                  /\ i # j => top[i].name # top[j].name
            /\ \A l \in all \ {top[i].name : i \in DOMAIN top} :
                  \A i \in DOMAIN top : top[i].count >= CountedIn(repos, l)
            /\ repos = OwnRepos(<<2, 1>>, 1) =>
                  last.out =
                      [topLanguages |->
                           <<[name |-> "Go", count |-> 2, percentage |-> 67,
                              color |-> "#00ADD8"],
                             [name |-> "Rust", count |-> 1, percentage |-> 33,
                              color |-> "#dea584"]>>,
                       totalLanguages |-> 2]

\* C15 witness: a list with a fork, a repository without language and own
\* repositories in 9 languages, the second counted twice, gave 8 entries
\* led by the second language, and totalLanguages 9.
C15_Witness ==
    /\ last.op = "calculateLanguageStats"
    /\ \E i \in DOMAIN last.repos : last.repos[i].fork
    /\ \E i \in DOMAIN last.repos : last.repos[i].language = ""
    /\ last.out.totalLanguages = 9
    /\ Len(last.out.topLanguages) = 8
    /\ last.out.topLanguages[1] =
           [name |-> "Rust", count |-> 2, percentage |-> 20, color |-> "#dea584"]

\* Twice the distance from 100 of the sum of the percentages listed.
PercentageGap(top) ==
    LET sum == SumSeq([i \in DOMAIN top |-> top[i].percentage])
    IN  IF sum >= 100 THEN 2 * (sum - 100) ELSE 2 * (100 - sum)

\* C16 as stated: whenever the list has at least one repository the
\* percentages of topLanguages sum to 100 within half a point per entry.
C16_PercentagesSumTo100 ==
    (last.op = "calculateLanguageStats" /\ Len(last.repos) >= 1) =>
        PercentageGap(last.out.topLanguages) <= Len(last.out.topLanguages)

\* C16 amended: whenever at least one repository is counted (not a fork,
\* with a language) and no more than 8 languages are counted, the
\* percentages of topLanguages sum to 100 within half a point per entry.
C16_PercentagesSumTo100WhenAllListed ==
    (/\ last.op = "calculateLanguageStats"
     /\ CountedLanguages(last.repos) # {}
     /\ Cardinality(CountedLanguages(last.repos)) <= 8) =>
        PercentageGap(last.out.topLanguages) <= Len(last.out.topLanguages)

\* C16 witness: three languages with one repository each, beside a fork:
\* 33 + 33 + 33.
C16_Witness ==
    /\ last.op = "calculateLanguageStats"
    /\ \E i \in DOMAIN last.repos : last.repos[i].fork
    /\ Len(last.out.topLanguages) = 3
    /\ \A i \in 1..3 : last.out.topLanguages[i].percentage = 33

\* C19: soloVsTeamScore is 100 for every list without a fork, the empty
\* list included, and otherwise own * 100 / (own + forked) rounded to the
\* nearest integer; it lies within 0..100.
C19_SoloScore ==
    last.op = "calculateScores" =>
        LET repos == last.repos
            forked == Cardinality({i \in DOMAIN repos : repos[i].fork})
            own == Len(repos) - forked
            score == last.out.soloScore
        IN  /\ score \in 0..100
            /\ IF forked = 0 THEN score = 100
               ELSE IsRoundedPercent(score, own, own + forked)

(***************************************************************************)
(* Bundles handed to calculateInsights                                     *)
(***************************************************************************)
Day20240325 == Day20240101 + 84

Day20240331 == Day20240101 + 90

InsightRepoLists ==
    {<<>>,
     OwnRepos(<<2, 1>>, 1),
     OwnRepos(<<1, 1, 1, 1, 1>>, 1),
     Copies(3, "fork", TRUE, "Zig") \o OwnRepos(<<1, 1, 1, 1>>, 1),
     Copies(2, "fork", TRUE, "Zig"),
     Copies(1, "plain", FALSE, "")}

\* Events of the user: pushes late in the evening, issues and a pull
\* request in the morning, pull requests and a review at midday, and an
\* event of the last hour (UTC) of 2023.
InsightEventLists ==
    {<<>>,
     <<Event("PushEvent", DateOf(Day20240325) + 22, "a/x", 3),
       Event("PushEvent", DateOf(Day20240325 + 1) + 22, "a/y", -1)>>,
     <<Event("IssuesEvent", DateOf(Day20240325) + 7, "a/x", -1),
       Event("IssuesEvent", DateOf(Day20240325 + 1) + 7, "a/x", -1),
       Event("PullRequestEvent", DateOf(Day20240325 + 2) + 7, "a/y", -1)>>,
     <<Event("PullRequestEvent", DateOf(Day20240325) + 12, "a/x", -1),
       Event("PullRequestReviewEvent", DateOf(Day20240325) + 12, "b/z", -1),
       Event("WatchEvent", DateOf(Day20240325) + 12, "b/w", -1)>>,
     <<Event("PushEvent", DateOf(Day20240101) - 1, "a/x", 2)>>}

CalendarDays(first, counts) ==
    [i \in DOMAIN counts |->
        [date |-> first + i - 1, contributionCount |-> counts[i],
         contributionLevel |-> ContributionLevel(counts[i])]]

\* A calendar of Monday 2024-03-25 to Monday 2024-04-01, in weeks that
\* start on Sunday.
CalendarOf(counts) ==
    [totalContributions |-> SumSeq(counts),
     weeks |-> <<CalendarDays(Day20240325, SubSeq(counts, 1, 6)),
                 CalendarDays(Day20240331, SubSeq(counts, 7, 8))>>]

InsightCalendars ==
    {Null,
     CalendarOf(<<0, 0, 0, 0, 0, 0, 0, 0>>),
     CalendarOf(<<0, 0, 0, 3, 1, 2, 0, 0>>),
     CalendarOf(<<2, 0, 0, 0, 0, 4, 5, 1>>)}

ContributionsCollection(contributions, commits, prs, issues, reviews, repositories) ==
    [totalCommitContributions |-> commits,
     totalPullRequestContributions |-> prs,
     totalIssueContributions |-> issues,
     totalPullRequestReviewContributions |-> reviews,
     totalRepositoriesWithContributedCommits |-> repositories,
     contributionCalendar |->
         [totalContributions |-> contributions,
          weeks |-> IF contributions = 0 THEN <<>>
                    ELSE <<CalendarDays(Day20240325, <<contributions>>)>>],
     commitContributionsByRepository |->
         IF commits = 0 THEN <<>>
         ELSE <<[name |-> "x", stargazerCount |-> 1, totalCount |-> commits,
                 primaryLanguage |-> "Go"]>>]

InsightSummaries ==
    {Null, ContributionsCollection(0, 0, 0, 0, 0, 0),
     ContributionsCollection(9, 5, 2, 1, 1, 2)}

InsightYears == {2024}

Zones == {UTC, UTCMinus5, CET}

\* The instants of the first evaluation: 10:00 UTC of 2024-03-31.
FirstInstants == {DateOf(Day20240331) + 10}

MaxDaysPassed == 1

InitInsights ==
    /\ now \in FirstInstants
    /\ ticks = 0
    /\ cache = <<>>
    /\ rateLimitInfo = Null
    /\ calls = [c \in 1..MaxCalls |-> IdleCall]
    /\ started = 0
    /\ pag = IdlePaginator
    /\ \E repos \in InsightRepoLists, events \in InsightEventLists,
          contributionData \in InsightSummaries,
          contributionCalendar \in InsightCalendars,
          year \in InsightYears, zone \in Zones :
          last = [op |-> "input",
                  data |-> [repos |-> repos, events |-> events,
                            contributionData |-> contributionData,
                            contributionCalendar |-> contributionCalendar],
                  year |-> year, zone |-> zone, at |-> -1, out |-> Null]

\* calculateInsights(data, year), in a browser of time zone last.zone
\* whose clock reads now.
CalculateInsightsCall ==
    /\ last' = [last EXCEPT !.op = "calculateInsights", !.at = now,
                            !.out = CalculateInsights(last.data, last.year, now,
                                                      last.zone)]
    /\ UNCHANGED <<now, ticks, cache, rateLimitInfo, calls, started, pag>>

\* A day goes by.
DayPasses ==
    /\ ticks < MaxDaysPassed
    /\ ticks' = ticks + 1
    /\ now' = now + 24
    /\ UNCHANGED <<cache, rateLimitInfo, calls, started, pag, last>>

NextInsights == CalculateInsightsCall \/ DayPasses

SpecInsights == InitInsights /\ [][NextInsights]_vars

(***************************************************************************)
(* Claims about calculateInsights (under SpecInsights)                     *)
(***************************************************************************)
\* C13: whenever the bundle holds a contribution summary, each basic
\* counter of the Insights equals the field of the summary, a field of 0
\* included, whatever the events and the fallback calendar hold.
C13_CountersEqualSummary ==
    (last.op = "calculateInsights" /\ last.data.contributionData # Null) =>
        LET summary == last.data.contributionData
        IN  /\ last.out.totalContributions =
                   summary.contributionCalendar.totalContributions
            /\ last.out.totalCommits = summary.totalCommitContributions
            /\ last.out.totalPRs = summary.totalPullRequestContributions
            /\ last.out.totalIssues = summary.totalIssueContributions
            /\ last.out.totalReviews = summary.totalPullRequestReviewContributions
            /\ last.out.repositoriesContributedTo =
                   summary.totalRepositoriesWithContributedCommits

\* The number of events of the type dated in the year (of the time zone
\* of the evaluation).
EventsInYear(events, type, year, zone) ==
    Cardinality({i \in DOMAIN events :
                    /\ events[i].type = type
                    /\ GetFullYear(events[i].created_at, zone) = year})

\* C14: whenever the bundle holds no contribution summary but a calendar,
\* totalCommits is the sum of the day counts of the calendar, not the tally
\* of the push events, and totalPRs, totalIssues and totalReviews are the
\* numbers of pull-request, issue and review events of the requested year.
C14_CommitsFromCalendar ==
    (/\ last.op = "calculateInsights"
     /\ last.data.contributionData = Null
     /\ last.data.contributionCalendar # Null) =>
        LET days == FlatDays(last.data.contributionCalendar.weeks)
            events == last.data.events
        IN  /\ last.out.totalCommits =
                   SumSeq([i \in DOMAIN days |-> days[i].contributionCount])
            /\ last.out.totalPRs =
                   EventsInYear(events, "PullRequestEvent", last.year, last.zone)
            /\ last.out.totalIssues =
                   EventsInYear(events, "IssuesEvent", last.year, last.zone)
            /\ last.out.totalReviews =
                   EventsInYear(events, "PullRequestReviewEvent", last.year, last.zone)

\* The dates of the calendar with a count above 0.
ActiveDates(calendar) ==
    LET days == FlatDays(calendar.weeks)
    IN  {days[i].date : i \in {j \in DOMAIN days : days[j].contributionCount > 0}}

\* C17: for every calendar longestStreak >= currentStreak, and
\* currentStreak is 0 whenever the latest day with a count above 0 lies
\* more than one day before the day of the evaluation.
C17_CurrentStreakNeedsRecentDay ==
    (last.op = "calculateInsights" /\ last.data.contributionCalendar # Null) =>
        LET active == ActiveDates(last.data.contributionCalendar)
            today == LocalDay(last.at, last.zone)
        IN  /\ last.out.longestStreak >= last.out.currentStreak
            /\ (\A d \in active : today - d > 1) => last.out.currentStreak = 0

\* The rules of the title in their order, decided from the Insights
\* returned and from the languages of the repositories of the bundle.
TitleRules(out, repos) ==
    LET nightOwl == out.mostProductiveHour >= 20 \/ out.mostProductiveHour < 6
        earlyBird == out.mostProductiveHour >= 5 /\ out.mostProductiveHour < 10
        languages == Cardinality({repos[i].language : i \in DOMAIN repos} \ {""})
        polyglot == languages >= 5
        weekendWarrior == out.personality.traits[3].name = "Weekend Warrior"
        solo == out.soloVsTeamScore > 70
    IN  <<[holds |-> nightOwl /\ polyglot, title |-> "Nocturnal Polyglot"],
          [holds |-> earlyBird /\ solo, title |-> "Dawn Pioneer"],
          [holds |-> weekendWarrior /\ out.bugSlayerScore > 60,
           title |-> "Weekend Bug Hunter"],
          [holds |-> polyglot /\ ~solo, title |-> "Open Source Champion"],
          [holds |-> solo /\ languages <= 2, title |-> "Deep Specialist"],
          [holds |-> nightOwl /\ weekendWarrior, title |-> "Code Ninja"]>>

\* C18: the title is that of the lowest-numbered rule whose condition
\* holds, and 'Code Crafter' when none holds; rules 1 and 4 together give
\* 'Nocturnal Polyglot'.
C18_FirstRuleWins ==
    last.op = "calculateInsights" =>
        LET rules == TitleRules(last.out, last.data.repos)
            holding == {i \in DOMAIN rules : rules[i].holds}
            title == last.out.personality.title
        IN  /\ holding = {} => title = "Code Crafter"
            /\ \A i \in holding :
                  (\A j \in holding : i <= j) => title = rules[i].title
            /\ ({1, 4} \subseteq holding) => title = "Nocturnal Polyglot"

\* C18 witness: a bundle whose Insights satisfy rule 1 and rule 4 got
\* 'Nocturnal Polyglot'.
C18_Witness ==
    /\ last.op = "calculateInsights"
    /\ LET rules == TitleRules(last.out, last.data.repos)
       IN  rules[1].holds /\ rules[4].holds
    /\ last.out.personality.title = "Nocturnal Polyglot"

\* C20: two evaluations of calculateInsights with the same bundle and the
\* same year return equal Insights, whenever they are performed.
C20_Deterministic ==
    [][(/\ last.op = "calculateInsights"
        /\ last'.op = "calculateInsights"
        /\ last'.data = last.data
        /\ last'.year = last.year) => last'.out = last.out]_vars

(***************************************************************************)
(* The fallback calendar built from lists of contributions                 *)
(***************************************************************************)
\* Dates of the entries: 1970-01-03 (a Saturday), 01-04 (a Sunday), 01-05
\* and 01-11 (the next Sunday).
ContributionDates == {2, 3, 4, 10}

ContributionCounts == {0, 4}

MaxContributions == 4

ContributionLists ==
    UNION {[1..n -> [date : ContributionDates, count : ContributionCounts]] :
              n \in 0..MaxContributions}

InitBucket ==
    /\ now = 0
    /\ ticks = 0
    /\ cache = <<>>
    /\ rateLimitInfo = Null
    /\ calls = [c \in 1..MaxCalls |-> IdleCall]
    /\ started = 0
    /\ pag = IdlePaginator
    /\ \E contributions \in ContributionLists :
          last = [op |-> "input", contributions |-> contributions]

\* fetchContributionCalendarFallback whose request is answered 200 with
\* the list, with or without a total for the year.
BucketCall ==
    /\ last.op = "input"
    /\ \E total \in {<<>>, [y \in {2024} |-> 7]} :
          LET resp == Response(200, NoHeaders,
                               [contributions |-> last.contributions, total |-> total])
          IN  last' = [op |-> "fetchContributionCalendarFallback",
                       contributions |-> last.contributions, total |-> total,
                       value |-> ContributionCalendarFallback(resp, 2024)]
    /\ UNCHANGED <<now, ticks, cache, rateLimitInfo, calls, started, pag>>

\* The same request answered 404.
BucketRefused ==
    /\ last.op = "input"
    /\ last' = [op |-> "refused", contributions |-> last.contributions,
                value |-> ContributionCalendarFallback(
                              Response(404, NoHeaders, [message |-> "Not Found"]), 2024)]
    /\ UNCHANGED <<now, ticks, cache, rateLimitInfo, calls, started, pag>>

NextBucket == BucketCall \/ BucketRefused

SpecBucket == InitBucket /\ [][NextBucket]_vars

C22_EmptyCalendarSpansYear ==
    (last.op = "calculateInsights" /\ last.data.contributionCalendar = Null) =>
        LET calendar == last.out.contributionCalendar
            days == Concat(calendar.weeks)
        IN  /\ calendar.totalContributions = 0
            /\ Len(days) = DaysIn(last.year)
            /\ \A i \in DOMAIN days :
                  /\ days[i].date = FirstDayOf(last.year) + i - 1
                  /\ days[i].contributionCount = 0

(***************************************************************************)
(* Calendars handed to calculateStreaks                                    *)
(***************************************************************************)
MaxCalendarDays == 7

\* What a date of the window holds: no entry, an entry of count 0, or an
\* entry of count 5.
DayChoices == {-1, 0, 5}

\* The calendar of one week that holds, for the dates 2024-03-25 on, the
\* entries chosen.
PartialCalendar(choice) ==
    LET all == [i \in DOMAIN choice |->
                   [date |-> Day20240325 + i - 1, contributionCount |-> choice[i],
                    contributionLevel |-> ContributionLevel(choice[i])]]
        Present(day) == day.contributionCount >= 0
        days == SelectSeq(all, Present)
    IN  [totalContributions |-> SumSeq([i \in DOMAIN days |-> days[i].contributionCount]),
         weeks |-> <<days>>]

InitStreaks ==
    /\ now = DateOf(Day20240331) + 10
    /\ ticks = 0
    /\ cache = <<>>
    /\ rateLimitInfo = Null
    /\ calls = [c \in 1..MaxCalls |-> IdleCall]
    /\ started = 0
    /\ pag = IdlePaginator
    /\ \E choice \in [1..MaxCalendarDays -> DayChoices] :
          last = [op |-> "input", calendar |-> PartialCalendar(choice)]

\* calculateStreaks(calendar), in a browser of some time zone.
CalculateStreaksCall ==
    /\ last.op = "input"
    /\ \E zone \in Zones :
          last' = [op |-> "calculateStreaks", calendar |-> last.calendar, zone |-> zone,
                   out |-> CalculateStreaks(last.calendar, now, zone)]
    /\ UNCHANGED <<now, ticks, cache, rateLimitInfo, calls, started, pag>>

\* calculateStreaks(null)
CalculateStreaksNoCalendar ==
    /\ last.op = "input"
    /\ last' = [op |-> "calculateStreaks", calendar |-> Null, zone |-> UTC,
                out |-> CalculateStreaks(Null, now, UTC)]
    /\ UNCHANGED <<now, ticks, cache, rateLimitInfo, calls, started, pag>>

NextStreaks == CalculateStreaksCall \/ CalculateStreaksNoCalendar

SpecStreaks == InitStreaks /\ [][NextStreaks]_vars

\* The length of the longest run of dates, each one day after the previous
\* one, that all have an entry with a count above 0.
LongestRun(calendar) ==
    LET active == ActiveDates(calendar)
        Runs == {k \in 0..Cardinality(active) :
                    \E d \in active \cup {0} :
                        \A j \in 0..(k - 1) : d + j \in active}
    IN  CHOOSE k \in Runs : \A other \in Runs : other <= k

\* C23: longestStreak is the length of the longest run of calendar-adjacent
\* dates that all have a count above 0, for calendars with missing dates
\* too; the week 0, 0, 5, 0, 0, 0, 0 gives 1.
C23_LongestStreakIsLongestRun ==
    (last.op = "calculateStreaks" /\ last.calendar # Null) =>
        last.out.longestStreak = LongestRun(last.calendar)

(***************************************************************************)
(* Repository lists handed to calculateTopRepos                            *)
(***************************************************************************)
\* The kinds of repository of the lists: a fork with many stars, and own
\* repositories with 1 or 0 stars pushed in 2024, 2000 or 1990 (push times
\* of 2024 and 1990 are more than 10^12 ms apart).
RepoKinds ==
    {[fork |-> TRUE, stars |-> 5, pushed_at |-> DateOf(Day20240101)],
     [fork |-> FALSE, stars |-> 1, pushed_at |-> DateOf(FirstDayOf(2000))],
     [fork |-> FALSE, stars |-> 0, pushed_at |-> DateOf(Day20240101)],
     [fork |-> FALSE, stars |-> 1, pushed_at |-> DateOf(Day20240101)],
     [fork |-> FALSE, stars |-> 1, pushed_at |-> DateOf(FirstDayOf(1990))]}

MaxRepos == 7

RankedRepo(i, kind) ==
    [Repo("r" \o ToString(i), kind.fork, "Go", kind.stars)
        EXCEPT !.pushed_at = kind.pushed_at]

InitTopRepos ==
    /\ now = 0
    /\ ticks = 0
    /\ cache = <<>>
    /\ rateLimitInfo = Null
    /\ calls = [c \in 1..MaxCalls |-> IdleCall]
    /\ started = 0
    /\ pag = IdlePaginator
    /\ \E kinds \in [1..MaxRepos -> RepoKinds] :
          last = [op |-> "input",
                  repos |-> [i \in 1..MaxRepos |-> RankedRepo(i, kinds[i])]]

\* calculateTopRepos(repos, null)
CalculateTopReposCall ==
    /\ last.op = "input"
    /\ last' = [op |-> "calculateTopRepos", repos |-> last.repos,
                contributionData |-> Null,
                out |-> CalculateTopRepos(last.repos, Null)]
    /\ UNCHANGED <<now, ticks, cache, rateLimitInfo, calls, started, pag>>

\* calculateTopRepos(repos, contributionData) with a summary
CalculateTopReposFromSummary ==
    /\ last.op = "input"
    /\ \E contributionData \in InsightSummaries \ {Null} :
          last' = [op |-> "calculateTopRepos", repos |-> last.repos,
                   contributionData |-> contributionData,
                   out |-> CalculateTopRepos(last.repos, contributionData)]
    /\ UNCHANGED <<now, ticks, cache, rateLimitInfo, calls, started, pag>>

NextTopRepos == CalculateTopReposCall \/ CalculateTopReposFromSummary

SpecTopRepos == InitTopRepos /\ [][NextTopRepos]_vars

\* The repository of the list with this name.
RepoNamed(repos, name) == repos[CHOOSE i \in DOMAIN repos : repos[i].name = name]

\* The push times of the two repositories are less than 10^12 ms apart
\* (36 * hours < 10^7).
PushedWithin(a, b) ==
    /\ 36 * (a.pushed_at - b.pushed_at) < 10000000
    /\ 36 * (b.pushed_at - a.pushed_at) < 10000000

\* C24: without a summary topRepositories lists at most 6 repositories,
\* none a fork, each with commits 0; a repository with more stars comes
\* before one with fewer stars, listed or left out, and among equal stars
\* the later push comes first, for push times less than 10^12 ms apart.
C24_TopReposByStars ==
    (last.op = "calculateTopRepos" /\ last.contributionData = Null) =>
        LET repos == last.repos
            top == last.out
            own == {repos[i].name : i \in {j \in DOMAIN repos : ~repos[j].fork}}
            listed == {top[i].name : i \in DOMAIN top}
        IN  /\ Len(top) = Min(6, Cardinality(own))
            /\ listed \subseteq own
            /\ Cardinality(listed) = Len(top)
            /\ \A i \in DOMAIN top :
                  /\ top[i].commits = 0
                  /\ top[i].stars = RepoNamed(repos, top[i].name).stargazers_count
            /\ \A i, j \in DOMAIN top :
                  LET a == RepoNamed(repos, top[i].name)
                      b == RepoNamed(repos, top[j].name)
                  IN  (i < j /\ PushedWithin(a, b)) =>
                          \/ a.stargazers_count > b.stargazers_count
                          \/ /\ a.stargazers_count = b.stargazers_count
                             /\ a.pushed_at >= b.pushed_at
            /\ \A i \in DOMAIN top : \A name \in own \ listed :
                  LET a == RepoNamed(repos, top[i].name)
                      b == RepoNamed(repos, name)
                  IN  PushedWithin(a, b) => a.stargazers_count >= b.stargazers_count

\* C24 witness: of 7 own repositories 6 are listed, among them one of 1
\* star pushed in 2000 right before one of 0 stars pushed in 2024, and two
\* of 1 star with the push of 2024 before the push of 2000.
C24_Witness ==
    /\ last.op = "calculateTopRepos"
    /\ last.contributionData = Null
    /\ \A i \in DOMAIN last.repos : ~last.repos[i].fork
    /\ Len(last.out) = 6
    /\ \E i \in 1..5 :
          LET a == RepoNamed(last.repos, last.out[i].name)
              b == RepoNamed(last.repos, last.out[i + 1].name)
          IN  /\ a.stargazers_count = 1 /\ b.stargazers_count = 0
              /\ a.pushed_at < b.pushed_at
    /\ \E i \in 1..5 :
          LET a == RepoNamed(last.repos, last.out[i].name)
              b == RepoNamed(last.repos, last.out[i + 1].name)
          IN  /\ a.stargazers_count = 1 /\ b.stargazers_count = 1
              /\ a.pushed_at > b.pushed_at

\* C25: streaks, the day-of-week histogram and the calendar returned come
\* from the fallback calendar of the bundle, never from the calendar of the
\* summary: with a summary and no fallback calendar the three streak
\* figures are 0 and the calendar returned is all zero, whatever the
\* calendar of the summary holds.
C25_OnlyFallbackCalendar ==
    (last.op = "calculateInsights" /\ last.data.contributionData # Null) =>
        LET calendar == last.data.contributionCalendar
            returned == Concat(last.out.contributionCalendar.weeks)
        IN  IF calendar = Null
            THEN /\ last.out.longestStreak = 0
                 /\ last.out.currentStreak = 0
                 /\ last.out.totalActiveDays = 0
                 /\ last.out.contributionCalendar.totalContributions = 0
                 /\ \A i \in DOMAIN returned : returned[i].contributionCount = 0
            ELSE /\ last.out.contributionCalendar = calendar
                 /\ last.out.totalActiveDays = Cardinality(ActiveDates(calendar))
                 /\ SumSeq([i \in DOMAIN DAYS |-> last.out.activityByDay[DAYS[i]]]) =
                        calendar.totalContributions

\* C25 witness: a bundle whose summary has a calendar with an active day
\* and whose fallback calendar is null got streaks of 0.
C25_Witness ==
    /\ last.op = "calculateInsights"
    /\ last.data.contributionData # Null
    /\ last.data.contributionCalendar = Null
    /\ ActiveDates(last.data.contributionData.contributionCalendar) # {}
    /\ last.out.longestStreak = 0
    /\ last.out.totalActiveDays = 0

(***************************************************************************)
(* Repeated acquisitions of one request, some of them degraded             *)
(***************************************************************************)
MaxRepeatedCalls == 3

\* The one request made again and again (src/src/App.tsx:39 passes no
\* token).
RepeatedArguments == {<<"a", 2024, "">>}

InitRepeated ==
    /\ now = 0
    /\ ticks = 0
    /\ cache = <<>>
    /\ rateLimitInfo = Null
    /\ calls = [c \in 1..MaxRepeatedCalls |-> IdleCall]
    /\ started = 0
    /\ pag = IdlePaginator
    /\ last = NoLast

RepeatedCallMade ==
    \E c \in DOMAIN calls, args \in RepeatedArguments :
        FetchAllGitHubData(c, args[1], args[2], args[3], RaceConcurrent)

\* The clock advances by a millisecond less than the time to live.
RepeatedClockStep == ClockAdvances({CACHE_TTL - 1}, MaxClockSteps)

\* The profile, repository and calendar requests are answered 200, an
\* events page 200 or 404.
NextRepeated ==
    \/ RepeatedCallMade
    \/ \E c \in DOMAIN calls, headers \in MainHeaderSets :
          ProfileResponse(c, Response(200, headers, [login |-> calls[c].username]))
    \/ RaceReposArrives
    \/ EventsArrives
    \/ RaceCalendarFallbackArrives
    \/ RepeatedClockStep

SpecRepeated == InitRepeated /\ [][NextRepeated]_vars

\* The call fetched and returned a bundle whose events fetch soft-failed
\* or one of whose contribution sources came back null.
Degraded(call) ==
    /\ call.pc = "returned"
    /\ ~call.fromCache
    /\ \/ SoftFailed(call)
       \/ call.contributionCalendar.value = Null
       \/ call.token # "" /\ call.contributionData.value = Null

\* Call c is made in this step, with the request of call d.
MadeLike(c, d) ==
    /\ calls[c].pc = "idle"
    /\ calls'[c].pc # "idle"
    /\ calls'[c].username = calls[d].username
    /\ calls'[c].year = calls[d].year
    /\ (calls'[c].token # "") = (calls[d].token # "")

\* The step in which call d returns its degraded bundle stores it.
DegradedStored ==
    \A d \in DOMAIN calls :
        (~Degraded(calls[d]) /\ Degraded(calls[d])') =>
            /\ calls[d].key \in DOMAIN cache'
            /\ cache'[calls[d].key].data = calls'[d].result
            /\ cache'[calls[d].key].timestamp = now

\* C26 as stated: a degraded bundle is stored like a successful one, and
\* every later call with the same username, year and auth mode within 5
\* minutes (here: in a run of less than 5 minutes) returns that bundle
\* without a request.
C26_DegradedBundleServed ==
    [][/\ DegradedStored
       /\ \A c, d \in DOMAIN calls :
             (Degraded(calls[d]) /\ MadeLike(c, d)) =>
                 /\ calls'[c].fromCache
                 /\ calls'[c].result = calls[d].result
                 /\ Requests(calls'[c]) = 0]_vars

\* C26 amended: a degraded bundle is stored like a successful one, and
\* every later call with the same username, year and auth mode made less
\* than 5 minutes after the bundle was stored, while it still is the entry
\* of its key, returns that bundle without a request.
C26_DegradedBundleServedWhileCached ==
    [][/\ DegradedStored
       /\ \A c, d \in DOMAIN calls :
             (/\ Degraded(calls[d])
              /\ MadeLike(c, d)
              /\ calls[d].key \in DOMAIN cache
              /\ cache[calls[d].key].data = calls[d].result
              /\ now - cache[calls[d].key].timestamp < CACHE_TTL) =>
                 /\ calls'[c].fromCache
                 /\ calls'[c].result = calls[d].result
                 /\ Requests(calls'[c]) = 0]_vars

\* C26 witness: a call whose events fetch soft-failed returned, and a later
\* call got its bundle from the cache without a request, after the clock
\* had advanced.
C26_Witness ==
    \E d \in DOMAIN calls : \E c \in DOMAIN calls :
        /\ d < c
        /\ Degraded(calls[d])
        /\ SoftFailed(calls[d])
        /\ calls[c].fromCache
        /\ calls[c].result = calls[d].result
        /\ Requests(calls[c]) = 0
        /\ now > 0

(***************************************************************************)
(* Traits handed to calculatePersonality                                   *)
(***************************************************************************)
DayTally(saturday, sunday, monday) ==
    [name \in {DAYS[i] : i \in DOMAIN DAYS} |->
        IF name = "Saturday" THEN saturday
        ELSE IF name = "Sunday" THEN sunday
        ELSE IF name = "Monday" THEN monday ELSE 0]

DayTallies == {DayTally(0, 0, 0), DayTally(0, 0, 5), DayTally(2, 0, 5), DayTally(2, 1, 5)}

SoloScores == {0, 70, 71, 100}

BugSlayerScores == {50, 60, 61}

InitPersonality ==
    /\ now = 0
    /\ ticks = 0
    /\ cache = <<>>
    /\ rateLimitInfo = Null
    /\ calls = [c \in 1..MaxCalls |-> IdleCall]
    /\ started = 0
    /\ pag = IdlePaginator
    /\ \E hour \in 0..23, tally \in DayTallies, soloScore \in SoloScores,
          bugSlayerScore \in BugSlayerScores, repos \in InsightRepoLists :
          last = [op |-> "input", repos |-> repos,
                  activity |-> [mostProductiveHour |-> hour, activityByDay |-> tally],
                  scores |-> [soloScore |-> soloScore,
                              bugSlayerScore |-> bugSlayerScore]]

\* calculatePersonality(events, repos, activity, scores)
CalculatePersonalityCall ==
    /\ last.op = "input"
    /\ \E events \in ScoreEvents :
          last' = [last EXCEPT !.op = "calculatePersonality"]
                      @@ [out |-> CalculatePersonality(events, last.repos,
                                                       last.activity, last.scores)]
    /\ UNCHANGED <<now, ticks, cache, rateLimitInfo, calls, started, pag>>

NextPersonality == CalculatePersonalityCall

SpecPersonality == InitPersonality /\ [][NextPersonality]_vars

\* C27: the time-of-day style is one category: whenever the title is
\* 'Dawn Pioneer', the rule that requires early-bird, the time-of-day trait
\* is named 'Early Bird', for every most productive hour and every
\* combination of the other traits.
C27_DawnPioneerIsEarlyBird ==
    (last.op = "calculatePersonality" /\ last.out.title = "Dawn Pioneer") =>
        last.out.traits[1].name = "Early Bird"

\* C28: when the bundle holds no event dated in the requested year, every
\* bucket of activityByHour is 0, mostProductiveHour is 0, peakHourRange is
\* '12 AM - 1 AM' and the time-of-day trait is 'Night Owl'.
C28_NoEventsIsNightOwl ==
    (/\ last.op = "calculateInsights"
     /\ \A i \in DOMAIN last.data.events :
           GetFullYear(last.data.events[i].created_at, last.zone) # last.year) =>
        /\ \A h \in 0..23 : last.out.activityByHour[h] = 0
        /\ last.out.mostProductiveHour = 0
        /\ last.out.peakHourRange = "12 AM - 1 AM"
        /\ last.out.personality.traits[1].name = "Night Owl"

\* C28 witness: a bundle whose only event falls in the year before the
\* requested one (local time) was evaluated and got the trait 'Night Owl'.
C28_Witness ==
    /\ last.op = "calculateInsights"
    /\ last.data.events # <<>>
    /\ \A i \in DOMAIN last.data.events :
          GetFullYear(last.data.events[i].created_at, last.zone) # last.year
    /\ last.out.mostProductiveHour = 0
    /\ last.out.personality.traits[1].name = "Night Owl"

\* C29: the 'Polyglot' trait is present exactly when totalLanguages is at
\* least 5, for every repository list, lists with forks included.
C29_PolyglotAgreesWithTotalLanguages ==
    last.op = "calculateInsights" =>
        ((\E i \in DOMAIN last.out.personality.traits :
              last.out.personality.traits[i].name = "Polyglot")
            <=> last.out.totalLanguages >= 5)

(***************************************************************************)
(* StoryContainer: navigation between the screens of the story             *)
(***************************************************************************)
\* The screens WrappedPage hands to StoryContainer as children.
WrappedScreens == 7

ScreenCounts == {1, 2, WrappedScreens}

MaxCompleted == 1

\* The callback a transition hands to setTimeout: a functional update of
\* currentIndex by delta, or an assignment of index.
StepBy(delta) == [fn |-> "add", arg |-> delta]

JumpTo(index) == [fn |-> "set", arg |-> index]

\* useState(0), useState('next'), useState(false); no timer is set.
InitStory ==
    /\ now = 0
    /\ ticks = 0
    /\ cache = <<>>
    /\ rateLimitInfo = Null
    /\ calls = [c \in 1..MaxCalls |-> IdleCall]
    /\ started = 0
    /\ pag = IdlePaginator
    /\ \E totalScreens \in ScreenCounts :
          last = [op |-> "mount", totalScreens |-> totalScreens, currentIndex |-> 0,
                  direction |-> "next", isAnimating |-> FALSE, timers |-> <<>>,
                  updates |-> <<>>, completed |-> 0]

\* setDirection(d); setIsAnimating(true); setTimeout(callback, 300), and the
\* render that follows the event.
StartTransition(op, direction, callback) ==
    last' = [last EXCEPT !.op = op, !.direction = direction, !.isAnimating = TRUE,
                         !.timers = Append(@, callback)]

\* goToNext with isAnimating read without a guard.
MutGoToNextWhileAnimating ==
    IF last.currentIndex < last.totalScreens - 1
    THEN /\ StartTransition("goToNext", "next", StepBy(1))
         /\ UNCHANGED <<now, ticks, cache, rateLimitInfo, calls, started, pag>>
    ELSE /\ last.completed < MaxCompleted
         /\ last' = [last EXCEPT !.op = "goToNext", !.completed = @ + 1]
         /\ UNCHANGED <<now, ticks, cache, rateLimitInfo, calls, started, pag>>

\* goToNext (next button, ArrowRight, space, swipe to the left)
GoToNext ==
    IF last.isAnimating
    THEN /\ last' = [last EXCEPT !.op = "goToNext"]
         /\ UNCHANGED <<now, ticks, cache, rateLimitInfo, calls, started, pag>>
    ELSE IF last.currentIndex < last.totalScreens - 1
    THEN /\ StartTransition("goToNext", "next", StepBy(1))
         /\ UNCHANGED <<now, ticks, cache, rateLimitInfo, calls, started, pag>>
    ELSE /\ last.completed < MaxCompleted
         /\ last' = [last EXCEPT !.op = "goToNext", !.completed = @ + 1]
         /\ UNCHANGED <<now, ticks, cache, rateLimitInfo, calls, started, pag>>

\* goToPrev (previous button, ArrowLeft, swipe to the right)
GoToPrev ==
    /\ IF ~last.isAnimating /\ last.currentIndex > 0
       THEN StartTransition("goToPrev", "prev", StepBy(-1))
       ELSE last' = [last EXCEPT !.op = "goToPrev"]
    /\ UNCHANGED <<now, ticks, cache, rateLimitInfo, calls, started, pag>>

\* goToScreen(index), from the dot of screen index in the progress bar
GoToScreen(index) ==
    /\ IF last.isAnimating \/ index = last.currentIndex
       THEN last' = [last EXCEPT !.op = "goToScreen"]
       ELSE StartTransition("goToScreen",
                            IF index > last.currentIndex THEN "next" ELSE "prev",
                            JumpTo(index))
    /\ UNCHANGED <<now, ticks, cache, rateLimitInfo, calls, started, pag>>

\* The oldest timer fires after its 300 ms: its callback queues the update
\* of currentIndex and setIsAnimating(false) for the next render.
TimerFires ==
    /\ last.timers # <<>>
    /\ last' = [last EXCEPT !.op = "timer", !.timers = Tail(@),
                            !.updates = Append(@, Head(last.timers))]
    /\ UNCHANGED <<now, ticks, cache, rateLimitInfo, calls, started, pag>>

\* The queued updates of currentIndex applied in order.
RECURSIVE ApplyUpdates(_, _)
ApplyUpdates(updates, currentIndex) ==
    IF updates = <<>> THEN currentIndex
    ELSE ApplyUpdates(Tail(updates),
                      IF Head(updates).fn = "add" THEN currentIndex + Head(updates).arg
                      ELSE Head(updates).arg)

\* The render after a timer: the queued updates become the state the
\* handlers of the next event read.
Render ==
    /\ last.updates # <<>>
    /\ last' = [last EXCEPT !.op = "render", !.updates = <<>>,
                            !.currentIndex = ApplyUpdates(last.updates, @),
                            !.isAnimating = FALSE]
    /\ UNCHANGED <<now, ticks, cache, rateLimitInfo, calls, started, pag>>

NextStory ==
    \/ GoToNext
    \/ GoToPrev
    \/ \E index \in 0..(last.totalScreens - 1) : GoToScreen(index)
    \/ TimerFires
    \/ Render

SpecStory == InitStory /\ [][NextStory]_vars

\* A transition is pending from the request that starts it until its timer
\* has fired and the render has taken its updates.
TransitionsPending == Len(last.timers) + Len(last.updates)

StoryRequest ==
    GoToNext \/ GoToPrev \/ \E index \in 0..(last.totalScreens - 1) : GoToScreen(index)

\* C30: after any sequence of goToNext, goToPrev and goToScreen(i) requests
\* interleaved with the transition timers, currentIndex is within
\* 0..totalScreens-1, at most one transition is pending, a request made
\* while a transition is pending changes nothing, and goToNext on the last
\* screen calls onComplete and leaves currentIndex alone.
C30_StoryNavigation ==
    /\ [](last.currentIndex \in 0..(last.totalScreens - 1))
    /\ [](TransitionsPending <= 1)
    /\ [][(TransitionsPending > 0 /\ StoryRequest) =>
              last' = [last EXCEPT !.op = last'.op]]_vars
    /\ [][(/\ GoToNext
           /\ ~last.isAnimating
           /\ last.currentIndex = last.totalScreens - 1) =>
              /\ last'.completed = last.completed + 1
              /\ last' = [last EXCEPT !.op = "goToNext", !.completed = last'.completed]]_vars

\* C30 witness: the story of seven screens was walked to its last screen
\* through six transitions, and goToNext on the last screen called
\* onComplete.
C30_Witness ==
    /\ last.op = "goToNext"
    /\ last.totalScreens = WrappedScreens
    /\ last.currentIndex = WrappedScreens - 1
    /\ last.completed = 1
    /\ ~last.isAnimating

====
